---------------------------- MODULE Spec2Model ----------------------------
(***************************************************************************)
(* A model of the iris compiler pipeline (frederikgramkortegaard/iris):    *)
(* the driver's stage ordering, AST simplification, typechecking of        *)
(* declarations, HIR -> MIR lowering, CFG analysis and the dominator       *)
(* computation of the SSA pass.                                            *)
(*                                                                         *)
(* Each component has its own specification (SpecCfg, SpecDriver, ...)     *)
(* over the shared variables below; a component's specification leaves the *)
(* variables of the other components at their idle values.                 *)
(***************************************************************************)
EXTENDS Integers, Sequences, FiniteSets, TLC

(***************************************************************************)
(* Bounds of the model.                                                    *)
(***************************************************************************)
\* Largest arena (number of basic blocks) of an arbitrary MIR function.
MaxBlocks == 3
\* Largest number of messages of one severity a pass reports in the driver model.
MaxDiag == 2
\* Largest number of declarations and statements of a program of the model.
MaxNodes == 3
\* Largest number of globals and statements of a program handed to typechecking alone.
MaxStmts == 2
\* Largest number of operators of an expression handed to the simplification pass.
MaxOps == 2
\* Largest number literal of such an expression.
MaxLit == 1
\* Largest number of characters of an input handed to the lexer.
MaxInput == 3
\* Largest number of tokens of the free part of a token sequence handed to the parser.
MaxTokens == 4
\* Largest number of binary operators of an expression handed to parse_expression.
MaxBinOps == 3

VARIABLES
    pc,             \* position of the component being run
    arena,          \* MirFunction.arena: sequence of BasicBlock, BlockId b is arena[b+1]
    entry,          \* MirFunction.entry
    predecessors,   \* CFGAnalysis.predecessors: BlockId -> sequence of BlockId
    successors,     \* CFGAnalysis.successors:   BlockId -> sequence of BlockId
    dom,            \* compute_dominators: dom map, BlockId -> set of BlockId
    changed,        \* compute_dominators: the `changed` flag of the last pass
    ran,            \* cli::run: the stages started so far, in order
    diags,          \* cli::run: stage -> what the stage reported (its DiagnosticCollector)
    outcome,        \* cli::run: "running", or how the run ended: "Ok", "Err", "Panic"
    program,        \* the HIR program handed to the typechecker
    tc,             \* TypecheckingPass: its errors and the program as it leaves it
    low,            \* LoweringPass: its errors and register_cursor when it ends
    expr,           \* the expression handed to the simplification pass
    once,           \* ASTSimplificationPass: its counts and the tree after one pass
    twice,          \* the same after a second pass over that tree
    input,          \* the characters handed to the lexer
    lx,             \* LexerContext: tokens, row, column, cursor, and how lex ended
    tokens,         \* the tokens handed to the parser
    parsed          \* what parse (or parse_expression) returned

ssaVars == <<arena, entry, predecessors, successors, dom, changed>>
driverVars == <<ran, diags, outcome>>
hirVars == <<program, tc, low>>
simpVars == <<expr, once, twice>>
lexVars == <<input, lx>>
parseVars == <<tokens, parsed>>
frontVars == <<lexVars, parseVars>>
vars == <<pc, ssaVars, driverVars, hirVars, simpVars, frontVars>>

\* What the actions of one component leave alone.
notSsa == <<driverVars, hirVars, simpVars, frontVars>>
notDriver == <<ssaVars, hirVars, simpVars, frontVars>>
notHir == <<driverVars, simpVars, frontVars>>
notSimp == <<ssaVars, driverVars, hirVars, frontVars>>
notLex == <<ssaVars, driverVars, hirVars, simpVars, parseVars>>
notParse == <<ssaVars, driverVars, hirVars, simpVars, lexVars>>

(***************************************************************************)
(* MIR: terminators, basic blocks, arena  (src/mir/mod.rs)                 *)
(***************************************************************************)
Unreachable == [kind |-> "Unreachable"]
Ret == [kind |-> "Ret"]
Br(target) == [kind |-> "Br", target |-> target]
BrIf(then_bb, else_bb) == [kind |-> "BrIf", then_bb |-> then_bb, else_bb |-> else_bb]

BasicBlock(instructions, terminator) ==
    [instructions |-> instructions, terminator |-> terminator]

\* BlockArena::iter / len: the BlockIds of an arena are 0 .. len-1.
BlockIds(ar) == 0 .. (Len(ar) - 1)

\* BlockArena::get
Block(ar, id) == ar[id + 1]

\* Every terminator over the BlockIds 0 .. n-1.
Terminators(n) ==
    {Unreachable, Ret}
        \cup {Br(t) : t \in 0 .. (n - 1)}
        \cup {BrIf(t, e) : t \in 0 .. (n - 1), e \in 0 .. (n - 1)}

(***************************************************************************)
(* CFGAnalysis::new  (src/mir/cfg.rs)                                      *)
(***************************************************************************)
Push(map, key, value) == [map EXCEPT ![key] = Append(@, value)]

\* The mutant used for C4: the BrIf arm records only the then edge as a predecessor.
CfgVisitBlockNoElsePred(ar, cfg, id) ==
    LET t == Block(ar, id).terminator IN
    CASE t.kind = "Br" ->
            [successors |-> Push(cfg.successors, id, t.target),
             predecessors |-> Push(cfg.predecessors, t.target, id)]
      [] t.kind = "BrIf" ->
            [successors |-> Push(Push(cfg.successors, id, t.then_bb), id, t.else_bb),
             predecessors |-> Push(cfg.predecessors, t.then_bb, id)]
      [] OTHER -> cfg

\* One iteration of the second loop of CFGAnalysis::new: the match on a terminator.
CfgVisitBlock(ar, cfg, id) ==
    LET t == Block(ar, id).terminator IN
    CASE t.kind = "Br" ->
            [successors |-> Push(cfg.successors, id, t.target),
             predecessors |-> Push(cfg.predecessors, t.target, id)]
      [] t.kind = "BrIf" ->
            [successors |-> Push(Push(cfg.successors, id, t.then_bb), id, t.else_bb),
             predecessors |-> Push(Push(cfg.predecessors, t.then_bb, id), t.else_bb, id)]
      [] OTHER -> cfg

RECURSIVE CfgLoop(_, _, _)
CfgLoop(ar, cfg, id) ==
    IF id = Len(ar) THEN cfg ELSE CfgLoop(ar, CfgVisitBlock(ar, cfg, id), id + 1)

\* CFGAnalysis::new: both maps start empty for every block, then one pass over the blocks.
CFGAnalysisNew(ar) ==
    CfgLoop(ar,
            [successors |-> [b \in BlockIds(ar) |-> <<>>],
             predecessors |-> [b \in BlockIds(ar) |-> <<>>]],
            0)

(***************************************************************************)
(* MirSSAPass::compute_dominators  (src/mir/passes/ssa.rs)                 *)
(***************************************************************************)
RECURSIVE Retain(_, _, _, _)
RECURSIVE RetainUnion(_, _, _, _)
\* The mutant used for C24: the sets of the other predecessors are added, not intersected.
RetainUnion(inter, preds, d, i) ==
    IF i > Len(preds) THEN inter
    ELSE RetainUnion(inter \cup d[preds[i]], preds, d, i + 1)

\* `for &p in &preds[1..] { inter.retain(|x| dom[p].contains(x)) }`, from index i on.
Retain(inter, preds, d, i) ==
    IF i > Len(preds) THEN inter
    ELSE Retain(inter \cap d[preds[i]], preds, d, i + 1)

\* The mutant used for C3: only the last predecessor is read.
DomOfLastPredOnly(n, preds, d) == d[preds[Len(preds)]] \cup {n}

\* The set computed for a block with at least one predecessor:
\* dom(preds[0]) narrowed by every other predecessor, then the block itself added.
DomOf(n, preds, d) == Retain(d[preds[1]], preds, d, 2) \cup {n}

\* MirSSAPass::visit_function, first statement: the CFG of the function.
SsaCfg ==
    /\ pc = "ssa_cfg"
    /\ LET cfg == CFGAnalysisNew(arena) IN
        /\ successors' = cfg.successors
        /\ predecessors' = cfg.predecessors
    /\ pc' = "dom_init"
    /\ UNCHANGED <<arena, entry, dom, changed, notSsa>>

\* The mutant used for C23: every block other than entry starts with itself alone.
DomInitSelfOnly ==
    /\ pc = "dom_init"
    /\ dom' = [b \in BlockIds(arena) |-> {b}]
    /\ changed' = FALSE
    /\ pc' = "dom_loop"
    /\ UNCHANGED <<arena, entry, predecessors, successors, notSsa>>

\* compute_dominators, the initialisation loop.
DomInit ==
    /\ pc = "dom_init"
    /\ dom' = [b \in BlockIds(arena) |->
                  IF b = entry THEN {entry} ELSE BlockIds(arena)]
    /\ changed' = FALSE
    /\ pc' = "dom_loop"
    /\ UNCHANGED <<arena, entry, predecessors, successors, notSsa>>

\* The mutant used for C22: a block without predecessors is not skipped, its
\* set becomes the block alone.
DomVisitNoSkip(st, n) ==
    LET preds == predecessors[n] IN
    IF n = entry
    THEN st
    ELSE LET inter == IF preds = <<>> THEN {n} ELSE DomOf(n, preds, st.dom) IN
         IF inter # st.dom[n]
         THEN [dom |-> [st.dom EXCEPT ![n] = inter], changed |-> TRUE]
         ELSE st

\* The body of `for &node in &all_blocks` for one block: the entry block and a
\* block without predecessors are skipped; otherwise the set is recomputed and,
\* when it differs, written back at once (later blocks of the same pass read it).
DomVisit(st, n) ==
    LET preds == predecessors[n] IN
    IF n = entry \/ preds = <<>>
    THEN st
    ELSE LET inter == DomOf(n, preds, st.dom) IN
         IF inter # st.dom[n]
         THEN [dom |-> [st.dom EXCEPT ![n] = inter], changed |-> TRUE]
         ELSE st

RECURSIVE DomPassFrom(_, _)
DomPassFrom(st, n) ==
    IF n = Len(arena) THEN st ELSE DomPassFrom(DomVisit(st, n), n + 1)

\* One iteration of the fixpoint `loop`: `changed = false`, every block in arena
\* order, then `if !changed { break }`.
DomPass ==
    /\ pc = "dom_loop"
    /\ LET st == DomPassFrom([dom |-> dom, changed |-> FALSE], 0) IN
        /\ dom' = st.dom
        /\ changed' = st.changed
        /\ pc' = IF st.changed THEN "dom_loop" ELSE "ssa_done"
    /\ UNCHANGED <<arena, entry, predecessors, successors, notSsa>>

SsaNext == SsaCfg \/ DomInit \/ DomPass

CfgIdle ==
    /\ predecessors = <<>>
    /\ successors = <<>>
    /\ dom = <<>>
    /\ changed = FALSE

SsaIdle ==
    /\ arena = <<>>
    /\ entry = 0
    /\ CfgIdle

DriverIdle ==
    /\ ran = <<>>
    /\ diags = <<>>
    /\ outcome = "idle"

SimpIdle ==
    /\ expr = <<>>
    /\ once = [done |-> FALSE]
    /\ twice = [done |-> FALSE]

LexIdle ==
    /\ input = <<>>
    /\ lx = [status |-> "idle"]

ParseIdle ==
    /\ tokens = <<>>
    /\ parsed = [done |-> FALSE]

FrontIdle == LexIdle /\ ParseIdle

(***************************************************************************)
(* HIR: the tree the parser builds  (src/ast.rs, src/types.rs).            *)
(* Option<Type> is a type name or "None"; Option<Expression>,              *)
(* Option<Block> and Option<Scope> are sequences of length 0 or 1.         *)
(***************************************************************************)
\* The identifiers used by the programs of the model.
Names == {"x"}

NumberExpr(value) == [kind |-> "Number", value |-> value]
BooleanExpr(value) == [kind |-> "Boolean", value |-> value]
VariableExpr(name) == [kind |-> "Variable", name |-> name]
UnaryOp(op, left) == [kind |-> "UnaryOp", op |-> op, left |-> left]
BinaryOp(left, op, right) ==
    [kind |-> "BinaryOp", left |-> left, op |-> op, right |-> right]
Call(identifier, args) == [kind |-> "Call", identifier |-> identifier, args |-> args]

\* types::Variable
Variable(name, typ, initializer) ==
    [name |-> name, typ |-> typ, initializer |-> initializer]

\* ast::Block; the parser leaves `scope` empty
HirBlock(statements) == [statements |-> statements, scope |-> <<>>]

Assignment(left, typ, right) ==
    [kind |-> "Assignment", left |-> left, typ |-> typ, right |-> right]
Return(expression) == [kind |-> "Return", expression |-> expression]
While(condition, body) ==
    [kind |-> "While", condition |-> condition, body |-> body]
If(condition, then, els) ==
    [kind |-> "If", condition |-> condition, then |-> then, els |-> els]
ExpressionStmt(expression) == [kind |-> "Expression", expression |-> expression]
BlockStmt(block) == [kind |-> "Block", block |-> block]

\* types::Function
Function(name, args, return_type, body) ==
    [name |-> name, args |-> args, return_type |-> return_type, body |-> body]

\* ast::Program
Program(globals, functions) == [globals |-> globals, functions |-> functions]

(***************************************************************************)
(* Types  (src/types.rs)                                                   *)
(***************************************************************************)
ComparisonOps == {"==", "!=", "<", ">", "<=", ">="}
LogicalOps == {"&&", "||"}
ArithmeticOps == {"+", "-", "*", "/", "%"}

\* Type::is_equal on base types: Auto is compatible with anything
is_equal(a, b) == a = "Auto" \/ b = "Auto" \/ a = b

\* Type::binop_result
binop_result(self, op, other) ==
    IF ~is_equal(self, other) THEN "None"
    ELSE IF op \in ComparisonOps THEN "Bool"
    ELSE IF op \in LogicalOps THEN (IF self = "Bool" THEN "Bool" ELSE "None")
    ELSE IF op \in ArithmeticOps THEN self
    ELSE "None"

\* Type::unary_op_result
unary_op_result(self, op) ==
    IF op = "!" THEN (IF self = "Bool" THEN "Bool" ELSE "None")
    ELSE IF op \in {"-", "+"} THEN self
    ELSE "None"

(***************************************************************************)
(* TypecheckingPass  (src/passes/typechecking.rs).  The pass state is      *)
(* [scope_stack, function_stack, errors, return_type, panicked].  A Scope   *)
(* is kept as two maps: its symbols (name -> type) are an element of       *)
(* scope_stack and its functions (name -> Function) the element of         *)
(* function_stack at the same index.  `visits` counts the calls of         *)
(* visit_variable and visit_statement.                                     *)
(***************************************************************************)
EmptyScope == <<>>

\* The one element of a singleton set.  A value that is used several times is
\* bound as `v \in {e}`, so that it is computed once.
The(S) == CHOOSE y \in S : TRUE

Insert(scope, name, value) == (name :> value) @@ scope

RECURSIVE find_from(_, _, _)
find_from(scope_stack, name, i) ==
    IF i = 0 THEN "None"
    ELSE IF name \in DOMAIN scope_stack[i] THEN scope_stack[i][name]
    ELSE find_from(scope_stack, name, i - 1)

\* TypecheckingPass::find_variable: innermost scope first; yields the type
find_variable(scope_stack, name) == find_from(scope_stack, name, Len(scope_stack))

RECURSIVE find_function_from(_, _, _)
find_function_from(function_stack, name, i) ==
    IF i = 0 THEN <<>>
    ELSE IF name \in DOMAIN function_stack[i] THEN <<function_stack[i][name]>>
    ELSE find_function_from(function_stack, name, i - 1)

\* TypecheckingPass::find_function: innermost scope first; an Option<Function>
find_function(function_stack, name) ==
    find_function_from(function_stack, name, Len(function_stack))

\* TypecheckingPass::find_variable_in_current_scope
find_variable_in_current_scope(scope_stack, name) ==
    IF scope_stack = <<>> THEN "None"
    ELSE IF name \in DOMAIN scope_stack[Len(scope_stack)]
    THEN scope_stack[Len(scope_stack)][name]
    ELSE "None"

\* TypecheckingPass::add_variable_to_current_scope
add_variable_to_current_scope(st, name, typ) ==
    IF st.scope_stack = <<>> THEN st
    ELSE [st EXCEPT !.scope_stack[Len(st.scope_stack)] = Insert(@, name, typ)]

\* DiagnosticCollector::error
TcError(st, msg) == [st EXCEPT !.errors = Append(@, msg)]

TcErrors(st, msgs) == [st EXCEPT !.errors = @ \o msgs]

\* visit_expression, Call: "check types", one error for each parameter whose
\* type is not is_equal to the type of its argument
ArgumentMismatches(params, arg_types) ==
    SelectSeq([k \in 1 .. Len(params) |->
                  IF is_equal(params[k].typ, arg_types[k]) THEN ""
                  ELSE "Argument type mismatch"],
              LAMBDA m : m # "")

RECURSIVE Tc_visit_expression(_, _)
RECURSIVE Tc_call_args(_, _, _, _, _)

\* visit_expression, Call: "collect all argument types"; stops at the first
\* argument that has no type
Tc_call_args(st, args, i, arg_types, errors) ==
    IF i > Len(args) THEN [ok |-> TRUE, arg_types |-> arg_types, errors |-> errors]
    ELSE The({IF a.typ = "None"
              THEN [ok |-> FALSE, arg_types |-> arg_types, errors |-> errors \o a.errors]
              ELSE Tc_call_args(st, args, i + 1, Append(arg_types, a.typ),
                                errors \o a.errors) :
              a \in {Tc_visit_expression(st, args[i])}})

\* TypecheckingPass::visit_expression: the type (or "None") and the errors recorded
Tc_visit_expression(st, e) ==
    CASE e.kind = "Variable" ->
            LET t == find_variable(st.scope_stack, e.name)
            IN IF t # "None"
               THEN [typ |-> t, errors |-> <<>>]
               ELSE [typ |-> "None", errors |-> <<"Unknown variable">>]
      [] e.kind = "Number" -> [typ |-> "F64", errors |-> <<>>]
      [] e.kind = "UnaryOp" ->
            LET l == Tc_visit_expression(st, e.left)
            IN IF l.typ = "None" THEN l
               ELSE [typ |-> unary_op_result(l.typ, e.op), errors |-> l.errors]
      [] e.kind = "BinaryOp" ->
            LET l == Tc_visit_expression(st, e.left)
            IN IF l.typ = "None" THEN l
               ELSE LET r == Tc_visit_expression(st, e.right)
                        res == binop_result(l.typ, e.op, r.typ)
                    IN IF r.typ = "None"
                       THEN [typ |-> "None", errors |-> l.errors \o r.errors]
                       ELSE IF res # "None"
                       THEN [typ |-> res, errors |-> l.errors \o r.errors]
                       ELSE [typ |-> "None",
                             errors |-> l.errors \o r.errors \o
                                        <<"Type mismatch in binary operation">>]
      [] e.kind = "Call" ->
            LET func == find_function(st.function_stack, e.identifier)
            IN IF func = <<>>
               THEN [typ |-> "None", errors |-> <<"Unknown function">>]
               ELSE IF Len(func[1].args) # Len(e.args)
               THEN [typ |-> "None", errors |-> <<"Function expects another number of arguments">>]
               ELSE The({IF a.ok
                         THEN [typ |-> func[1].return_type,
                               errors |-> a.errors \o
                                          ArgumentMismatches(func[1].args, a.arg_types)]
                         ELSE [typ |-> "None", errors |-> a.errors] :
                         a \in {Tc_call_args(st, e.args, 1, <<>>, <<>>)}})

\* TypecheckingPass::visit_variable: the pass state and the variable as it is left
Tc_visit_variable(st, v) ==
    IF v.typ = "Auto" /\ v.initializer = <<>>
    THEN [st |-> TcError(st, "auto without initializer"), variable |-> v]
    ELSE IF v.typ = "Auto"
    THEN LET r == Tc_visit_expression(st, v.initializer[1])
         IN [st |-> TcErrors(st, r.errors),
             variable |-> IF r.typ # "None" THEN [v EXCEPT !.typ = r.typ] ELSE v]
    ELSE IF v.initializer = <<>>
    THEN [st |-> st, variable |-> v]
    ELSE LET r == Tc_visit_expression(st, v.initializer[1])
         IN [st |-> TcErrors(st, r.errors \o
                        (IF r.typ # "None" /\ ~is_equal(v.typ, r.typ)
                         THEN <<"Type mismatch for variable">> ELSE <<>>)),
             variable |-> v]

\* visit_statement, Statement::Assignment with a declared type (a declaration)
Tc_declaration(st, s) ==
    IF find_variable_in_current_scope(st.scope_stack, s.left) # "None"
    THEN TcError(st, "Redeclaration of variable in same scope")
    ELSE IF s.right = <<>>
    THEN IF s.typ = "Auto"
         THEN TcError(st, "auto without initializer")
         ELSE add_variable_to_current_scope(st, s.left, s.typ)
    ELSE LET r == Tc_visit_expression(st, s.right[1])
             st1 == TcErrors(st, r.errors)
         IN IF r.typ = "None" THEN st1
            ELSE IF s.typ = "Auto"
            THEN add_variable_to_current_scope(st1, s.left, r.typ)
            ELSE add_variable_to_current_scope(
                     IF is_equal(s.typ, r.typ) THEN st1
                     ELSE TcError(st1, "Type mismatch for variable"),
                     s.left, s.typ)

\* visit_statement, Statement::Assignment without a type (a reassignment)
Tc_reassignment(st, s) ==
    LET var_typ == find_variable(st.scope_stack, s.left)
    IN IF var_typ = "None"
       THEN TcError(st, "Cannot assign to undeclared variable")
       ELSE IF s.right = <<>>
       THEN [st EXCEPT !.panicked = TRUE]
       ELSE LET r == Tc_visit_expression(st, s.right[1])
                st1 == TcErrors(st, r.errors)
            IN IF r.typ = "None" THEN st1
               ELSE IF is_equal(var_typ, r.typ) THEN st1
               ELSE TcError(st1, "Type mismatch in assignment")

\* visit_statement, Statement::Return
Tc_return(st, s) ==
    LET r == IF s.expression = <<>>
             THEN [typ |-> "Void", errors |-> <<>>]
             ELSE Tc_visit_expression(st, s.expression[1])
        st1 == TcErrors(st, r.errors)
    IN IF r.typ = "None" \/ st.return_type = "None" THEN st1
       ELSE IF is_equal(r.typ, st.return_type) THEN st1
       ELSE TcError(st1, "Type mismatch in return statement")

\* visit_statement, If / While: "condition must be bool"
Tc_condition(st, condition) ==
    LET r == Tc_visit_expression(st, condition)
        st1 == TcErrors(st, r.errors)
    IN IF r.typ # "None" /\ r.typ # "Bool"
       THEN TcError(st1, "condition must be bool")
       ELSE st1

RECURSIVE Tc_visit_statement(_, _)
RECURSIVE Tc_walk_block(_, _, _, _)
RECURSIVE Tc_walk_block_UntilError(_, _, _, _)
RECURSIVE Tc_scoped_block(_, _)

\* The mutant used for C20: the walk stops at the first statement that records an error.
Tc_walk_block_UntilError(st, statements, i, out) ==
    IF i > Len(statements) THEN [st |-> st, statements |-> out]
    ELSE The({IF Len(r.st.errors) > Len(st.errors)
              THEN [st |-> r.st,
                    statements |-> Append(out, r.statement) \o
                                   SubSeq(statements, i + 1, Len(statements))]
              ELSE Tc_walk_block_UntilError(r.st, statements, i + 1, Append(out, r.statement)) :
              r \in {Tc_visit_statement([st EXCEPT !.visits = @ + 1], statements[i])}})

\* Visitor::walk_block: visit statements[i..] in order; the statements as they are left
Tc_walk_block(st, statements, i, out) ==
    IF i > Len(statements) THEN [st |-> st, statements |-> out]
    ELSE The({Tc_walk_block(r.st, statements, i + 1, Append(out, r.statement)) :
                 r \in {Tc_visit_statement([st EXCEPT !.visits = @ + 1], statements[i])}})

\* visit_statement: a fresh scope is attached to the block and pushed, the block
\* is visited, the scope is popped; the block keeps the scope with what was added
Tc_scoped_block(st, b) ==
    The({[st |-> [r.st EXCEPT !.scope_stack = SubSeq(@, 1, Len(@) - 1),
                              !.function_stack = SubSeq(@, 1, Len(@) - 1)],
          block |-> [statements |-> r.statements,
                     scope |-> <<r.st.scope_stack[Len(r.st.scope_stack)]>>]] :
         r \in {Tc_walk_block([st EXCEPT !.scope_stack = Append(@, EmptyScope),
                                         !.function_stack = Append(@, EmptyScope)],
                              b.statements, 1, <<>>)}})

\* TypecheckingPass::visit_statement: the pass state and the statement as it is left
Tc_visit_statement(st, s) ==
    IF st.panicked THEN [st |-> st, statement |-> s]
    ELSE CASE s.kind = "Expression" ->
                [st |-> TcErrors(st, Tc_visit_expression(st, s.expression).errors),
                 statement |-> s]
           [] s.kind = "Return" -> [st |-> Tc_return(st, s), statement |-> s]
           [] s.kind = "Block" ->
                The({[st |-> r.st, statement |-> [s EXCEPT !.block = r.block]] :
                     r \in {Tc_scoped_block(st, s.block)}})
           [] s.kind = "Assignment" ->
                [st |-> IF s.typ # "None" THEN Tc_declaration(st, s)
                        ELSE Tc_reassignment(st, s),
                 statement |-> s]
           [] s.kind = "If" ->
                The({IF s.els = <<>>
                     THEN [st |-> t.st, statement |-> [s EXCEPT !.then = t.block]]
                     ELSE The({[st |-> e.st,
                                statement |-> [s EXCEPT !.then = t.block,
                                                        !.els = <<e.block>>]] :
                               e \in {Tc_scoped_block(t.st, s.els[1])}}) :
                     t \in {Tc_scoped_block(Tc_condition(st, s.condition), s.then)}})
           [] s.kind = "While" ->
                The({[st |-> b.st, statement |-> [s EXCEPT !.body = b.block]] :
                     b \in {Tc_scoped_block(Tc_condition(st, s.condition), s.body)}})
           [] OTHER -> [st |-> TcError(st, "Unhandled statement type"), statement |-> s]

\* visit_program, first loop: visit_variable on each global, then a plain
\* insert into the global scope (which is not on the scope stack yet)
RECURSIVE Tc_globals(_, _, _, _, _)
Tc_globals(st, globals, i, scope, out) ==
    IF i > Len(globals) THEN [st |-> st, scope |-> scope, variables |-> out]
    ELSE The({Tc_globals(r.st, globals, i + 1,
                         Insert(scope, r.variable.name, r.variable.typ),
                         Append(out, r.variable)) :
              r \in {Tc_visit_variable([st EXCEPT !.visits = @ + 1], globals[i])}})

\* visit_function, first loop: visit_variable on each parameter, then a plain
\* insert into the function's scope (which is not on the scope stack yet)
RECURSIVE Tc_args(_, _, _, _, _)
Tc_args(st, args, i, scope, out) ==
    IF i > Len(args) THEN [st |-> st, scope |-> scope, variables |-> out]
    ELSE The({Tc_args(r.st, args, i + 1,
                      Insert(scope, r.variable.name, r.variable.typ),
                      Append(out, r.variable)) :
              r \in {Tc_visit_variable([st EXCEPT !.visits = @ + 1], args[i])}})

\* TypecheckingPass::visit_function: the function scope, which also holds the
\* function itself, is shared with the body
Tc_visit_function(st, f) ==
    The({The({[st |-> [r.st EXCEPT !.scope_stack = SubSeq(@, 1, Len(@) - 1),
                                   !.function_stack = SubSeq(@, 1, Len(@) - 1),
                                   !.return_type = "None"],
               function |-> [f EXCEPT !.args = a.variables,
                                      !.body = [statements |-> r.statements,
                                                scope |-> <<r.st.scope_stack[
                                                              Len(r.st.scope_stack)]>>]]] :
              r \in {Tc_walk_block(
                         [a.st EXCEPT !.scope_stack = Append(@, a.scope),
                                      !.function_stack =
                                          Append(@, Insert(EmptyScope, f.name,
                                                           [f EXCEPT !.args = a.variables])),
                                      !.return_type = f.return_type],
                         f.body.statements, 1, <<>>)}}) :
         a \in {Tc_args(st, f.args, 1, EmptyScope, <<>>)}})

\* visit_program, third loop: visit_function on each function, in order
RECURSIVE Tc_functions(_, _, _, _)
Tc_functions(st, functions, i, out) ==
    IF i > Len(functions) THEN [st |-> st, functions |-> out]
    ELSE The({Tc_functions(r.st, functions, i + 1, Append(out, r.function)) :
              r \in {Tc_visit_function(st, functions[i])}})

\* visit_program, second loop: every function declaration is inserted into the
\* global scope; a later function replaces an earlier one of the same name
RECURSIVE FunctionDeclarations(_, _, _)
FunctionDeclarations(functions, i, scope) ==
    IF i > Len(functions) THEN scope
    ELSE FunctionDeclarations(functions, i + 1, Insert(scope, functions[i].name, functions[i]))

\* TypecheckingPass::new
TcNew ==
    [scope_stack |-> <<>>, function_stack |-> <<>>, errors |-> <<>>,
     return_type |-> "None", panicked |-> FALSE, visits |-> 0]

\* TypecheckingPass::visit_program: the errors recorded (and those recorded when the
\* first loop ends), the number of visits and the program as it is left.  The globals are visited before the global scope is pushed.
Tc_visit_program(p) ==
    The({The({[errors |-> f.st.errors, panicked |-> f.st.panicked,
               visits |-> f.st.visits, global_errors |-> g.st.errors,
               program |-> [globals |-> g.variables, functions |-> f.functions]] :
              f \in {Tc_functions(
                         [g.st EXCEPT !.scope_stack = Append(@, g.scope),
                                      !.function_stack =
                                          Append(@, FunctionDeclarations(p.functions, 1,
                                                                         EmptyScope))],
                         p.functions, 1, <<>>)}}) :
         g \in {Tc_globals(TcNew, p.globals, 1, EmptyScope, <<>>)}})

(***************************************************************************)
(* LoweringPass  (src/hir/passes/lowering.rs).  The pass state is          *)
(* [arena, current_block, register_cursor, scope_stack, errors, panicked]  *)
(* and three history fields: handed, the registers get_free_register       *)
(* returned, in order; bound, the registers alloc_variable bound to a      *)
(* name; returned, the blocks a `return` set the terminator of; declared,  *)
(* the register each `var` statement wrote its name to.                    *)
(* A scope maps a name to its register.  An instruction is                 *)
(* [dest, op, args] (its MirType is left out); Option<Operand> uses        *)
(* NoOperand for None.  Calls are not part of the programs of the model.   *)
(***************************************************************************)
RegOperand(reg) == [kind |-> "Reg", reg |-> reg]
ImmF64(value) == [kind |-> "ImmF64", value |-> value]
ImmBool(value) == [kind |-> "ImmBool", value |-> value]
NoOperand == [kind |-> "None"]

Instruction(dest, op, args) == [dest |-> dest, op |-> op, args |-> args]

\* The Opcode for a binary operator token, "None" when the match falls through
Opcode(op) ==
    CASE op = "+" -> "Add" [] op = "-" -> "Sub" [] op = "*" -> "Mul"
      [] op = "/" -> "Div" [] op = "%" -> "Mod" [] op = "==" -> "Eq"
      [] op = "!=" -> "Ne" [] op = "<" -> "Lt" [] op = "<=" -> "Le"
      [] op = ">" -> "Gt" [] op = ">=" -> "Ge" [] OTHER -> "None"

\* LoweringPass::push_scope
push_scope(ls) == [ls EXCEPT !.scope_stack = Append(@, EmptyScope)]

\* LoweringPass::pop_scope
pop_scope(ls) ==
    [ls EXCEPT !.scope_stack = IF @ = <<>> THEN @ ELSE SubSeq(@, 1, Len(@) - 1)]

\* The mutant used for C26: the cursor is not advanced.
get_free_register_NoAdvance(ls) ==
    [ls EXCEPT !.handed = Append(@, ls.register_cursor)]

\* LoweringPass::get_free_register: the register handed out is ls.register_cursor
get_free_register(ls) ==
    [ls EXCEPT !.register_cursor = @ + 1, !.handed = Append(@, ls.register_cursor)]

\* LoweringPass::alloc_variable: the register handed out is ls.register_cursor
alloc_variable(ls, name) ==
    LET reg == ls.register_cursor
        ls1 == get_free_register(ls)
    IN IF ls1.scope_stack = <<>> THEN ls1
       ELSE [ls1 EXCEPT !.scope_stack[Len(ls1.scope_stack)] = Insert(@, name, reg),
                        !.bound = @ \cup {reg}]

RECURSIVE lookup_from(_, _, _)
lookup_from(scope_stack, name, i) ==
    IF i = 0 THEN -1
    ELSE IF name \in DOMAIN scope_stack[i] THEN scope_stack[i][name]
    ELSE lookup_from(scope_stack, name, i - 1)

\* LoweringPass::lookup_variable: innermost scope first; -1 for None
lookup_variable(ls, name) == lookup_from(ls.scope_stack, name, Len(ls.scope_stack))

\* The mutant used for C27: an allocation adds two blocks.
allocate_block_Twice(ls) ==
    [ls EXCEPT !.arena = @ \o <<BasicBlock(<<>>, Unreachable), BasicBlock(<<>>, Unreachable)>>]

\* LoweringPass::allocate_block: the id handed out is Len(ls.arena)
allocate_block(ls) == [ls EXCEPT !.arena = Append(@, BasicBlock(<<>>, Unreachable))]

\* LoweringPass::set_terminator_for_block
set_terminator_for_block(ls, block_id, term) ==
    [ls EXCEPT !.arena[block_id + 1].terminator = term]

\* LoweringPass::set_terminator
set_terminator(ls, term) == set_terminator_for_block(ls, ls.current_block, term)

\* LoweringPass::add_instruction
add_instruction(ls, inst) ==
    [ls EXCEPT !.arena[ls.current_block + 1].instructions = Append(@, inst)]

LowError(ls, msg) == [ls EXCEPT !.errors = Append(@, msg)]

\* an `.unwrap()` of None, `unreachable!()` or `panic!()`
LowPanic(ls) == [ls EXCEPT !.panicked = TRUE]

\* LoweringPass::visit_expression: the pass state and the operand (or NoOperand)
RECURSIVE Lower_visit_expression(_, _)
Lower_visit_expression(ls, e) ==
    IF ls.panicked THEN [ls |-> ls, operand |-> NoOperand]
    ELSE
    CASE e.kind = "Number" -> [ls |-> ls, operand |-> ImmF64(e.value)]
      [] e.kind = "Boolean" -> [ls |-> ls, operand |-> ImmBool(e.value)]
      [] e.kind = "Variable" ->
            LET reg == lookup_variable(ls, e.name)
            IN IF reg = -1
               THEN [ls |-> LowError(ls, "Variable not found"), operand |-> NoOperand]
               ELSE [ls |-> ls, operand |-> RegOperand(reg)]
      [] e.kind = "BinaryOp" ->
            LET l == Lower_visit_expression(ls, e.left)
            IN IF l.operand = NoOperand THEN l
               ELSE LET r == Lower_visit_expression(l.ls, e.right)
                        result_reg == r.ls.register_cursor
                        ls1 == get_free_register(r.ls)
                    IN IF r.operand = NoOperand THEN r
                       ELSE IF Opcode(e.op) = "None"
                       THEN [ls |-> LowError(ls1, "Unsupported binary operator"),
                             operand |-> NoOperand]
                       ELSE [ls |-> add_instruction(ls1,
                                       Instruction(result_reg, Opcode(e.op),
                                                   <<l.operand, r.operand>>)),
                             operand |-> RegOperand(result_reg)]
      [] e.kind = "UnaryOp" ->
            IF e.op \in {"-", "!"}
            THEN LET v == Lower_visit_expression(ls, e.left)
                     dest == v.ls.register_cursor
                     ls1 == get_free_register(v.ls)
                 IN IF v.operand = NoOperand
                    THEN [ls |-> LowPanic(v.ls), operand |-> NoOperand]
                    ELSE [ls |-> add_instruction(ls1,
                                    Instruction(dest, IF e.op = "-" THEN "Sub" ELSE "Eq",
                                                <<ImmF64(0), v.operand>>)),
                          operand |-> RegOperand(dest)]
            ELSE [ls |-> LowError(ls, "Unary operations not yet implemented"),
                  operand |-> NoOperand]

\* visit_statement (If, While): "If current_block changed (nested control flow),
\* set its terminator too", only when it is still Unreachable
FallThrough(ls, own_block, target) ==
    IF ls.current_block # own_block
       /\ Block(ls.arena, ls.current_block).terminator = Unreachable
    THEN set_terminator(ls, Br(target))
    ELSE ls

\* visit_block: "Pre-allocate all variables from the HIR scope"
RECURSIVE PreAllocate(_, _)
PreAllocate(ls, names) ==
    IF names = {} THEN ls
    ELSE LET n == CHOOSE n \in names : TRUE
         IN The({PreAllocate(a, names \ {n}) : a \in {alloc_variable(ls, n)}})

RECURSIVE Lower_visit_statement(_, _)
RECURSIVE Lower_statements(_, _, _)
RECURSIVE Lower_visit_block(_, _)

\* `for statement in &mut block.statements { self.visit_statement(statement) }`
Lower_statements(ls, statements, i) ==
    IF i > Len(statements) THEN ls
    ELSE The({Lower_statements(n, statements, i + 1) :
              n \in {Lower_visit_statement(ls, statements[i])}})

\* LoweringPass::visit_block
Lower_visit_block(ls, b) ==
    The({pop_scope(Lower_statements(allocated, b.statements, 1)) :
         allocated \in {IF b.scope = <<>> THEN push_scope(ls)
                        ELSE PreAllocate(push_scope(ls), DOMAIN b.scope[1])}})

\* The mutant used for C19: the BrIf of the cond block has its targets exchanged.
Lower_while_Exchanged(ls, s) ==
    LET cond_block == Len(ls.arena)
        then_block == cond_block + 1
        merge_block == cond_block + 2
        ls1 == allocate_block(allocate_block(allocate_block(ls)))
        ls2 == [set_terminator(ls1, Br(cond_block)) EXCEPT !.current_block = cond_block]
        c == Lower_visit_expression(ls2, s.condition)
    IN IF c.operand = NoOperand THEN LowPanic(c.ls)
       ELSE LET ls3 == set_terminator_for_block(c.ls, cond_block,
                                                BrIf(merge_block, then_block))
                ls4 == set_terminator_for_block(
                           [ls3 EXCEPT !.current_block = then_block],
                           then_block, Br(cond_block))
            IN The({IF ls5.panicked THEN ls5
                    ELSE [FallThrough(ls5, then_block, cond_block)
                             EXCEPT !.current_block = merge_block] :
                    ls5 \in {Lower_visit_block(ls4, s.body)}})

\* visit_statement, Statement::While
Lower_while(ls, s) ==
    LET cond_block == Len(ls.arena)
        then_block == cond_block + 1
        merge_block == cond_block + 2
        ls1 == allocate_block(allocate_block(allocate_block(ls)))
        ls2 == [set_terminator(ls1, Br(cond_block)) EXCEPT !.current_block = cond_block]
        c == Lower_visit_expression(ls2, s.condition)
    IN IF c.operand = NoOperand THEN LowPanic(c.ls)
       ELSE LET ls3 == set_terminator_for_block(c.ls, cond_block,
                                                BrIf(then_block, merge_block))
                ls4 == set_terminator_for_block(
                           [ls3 EXCEPT !.current_block = then_block],
                           then_block, Br(cond_block))
            IN The({IF ls5.panicked THEN ls5
                    ELSE [FallThrough(ls5, then_block, cond_block)
                             EXCEPT !.current_block = merge_block] :
                    ls5 \in {Lower_visit_block(ls4, s.body)}})

\* visit_statement, Statement::If
Lower_if(ls, s) ==
    LET then_block == Len(ls.arena)
        els_block == then_block + 1
        merge_block == then_block + 2
        ls1 == allocate_block(allocate_block(allocate_block(ls)))
        c == Lower_visit_expression(ls1, s.condition)
    IN IF c.operand = NoOperand THEN LowPanic(c.ls)
       ELSE LET ls2 == set_terminator(c.ls, BrIf(then_block, els_block))
                ls3 == set_terminator_for_block(ls2, then_block, Br(merge_block))
                AfterThen(ls4) ==
                    LET ls5 == FallThrough(ls4, then_block, merge_block)
                        ls6 == set_terminator_for_block(ls5, els_block, Br(merge_block))
                        ls7 == [ls6 EXCEPT !.current_block = els_block]
                    IN The({IF ls8.panicked THEN ls8
                            ELSE [FallThrough(ls8, els_block, merge_block)
                                     EXCEPT !.current_block = merge_block] :
                            ls8 \in {IF s.els = <<>> THEN ls7
                                     ELSE Lower_visit_block(ls7, s.els[1])}})
            IN The({IF ls4.panicked THEN ls4 ELSE AfterThen(ls4) :
                    ls4 \in {Lower_visit_block([ls3 EXCEPT !.current_block = then_block],
                                               s.then)}})

\* visit_statement, Statement::Return
Lower_return(ls, s) ==
    LET Returned_in(l) == [set_terminator(l, Ret) EXCEPT !.returned = @ \cup {l.current_block}]
    IN IF s.expression = <<>> THEN Returned_in(ls)
       ELSE LET v == Lower_visit_expression(ls, s.expression[1])
            IN IF v.ls.panicked THEN v.ls ELSE Returned_in(v.ls)

\* visit_statement, Statement::Assignment: the destination is the register the
\* name resolves to, or a newly allocated one; the value is copied into it
Lower_assignment(ls, s) ==
    LET found == lookup_variable(ls, s.left)
        dest_reg == IF found # -1 THEN found ELSE ls.register_cursor
        ls0 == IF found # -1 THEN ls ELSE alloc_variable(ls, s.left)
        ls1 == IF s.typ = "None" THEN ls0
               ELSE [ls0 EXCEPT !.declared = Append(@, dest_reg)]
    IN IF s.right = <<>> THEN ls1
       ELSE LET v == Lower_visit_expression(ls1, s.right[1])
            IN IF v.operand = NoOperand THEN v.ls
               ELSE add_instruction(v.ls, Instruction(dest_reg, "Copy", <<v.operand>>))

\* LoweringPass::visit_statement
Lower_visit_statement(ls, s) ==
    IF ls.panicked THEN ls
    ELSE CASE s.kind = "Expression" -> Lower_visit_expression(ls, s.expression).ls
           [] s.kind = "While" -> Lower_while(ls, s)
           [] s.kind = "If" -> Lower_if(ls, s)
           [] s.kind = "Block" -> Lower_visit_block(ls, s.block)
           [] s.kind = "Return" -> Lower_return(ls, s)
           [] s.kind = "Assignment" -> Lower_assignment(ls, s)
           [] OTHER -> ls

\* visit_program / visit_function: alloc_variable for each global / parameter
RECURSIVE AllocAll(_, _, _)
AllocAll(ls, variables, i) ==
    IF i > Len(variables) THEN ls
    ELSE The({AllocAll(a, variables, i + 1) : a \in {alloc_variable(ls, variables[i].name)}})

\* LoweringPass::new
LoweringPassNew ==
    [arena |-> <<>>, current_block |-> -1, register_cursor |-> 0,
     scope_stack |-> <<>>, errors |-> <<>>, panicked |-> FALSE,
     handed |-> <<>>, bound |-> {}, returned |-> {}, declared |-> <<>>]

\* LoweringPass::convert_type: the MirType, "Panic" for Auto (`unreachable!()`)
\* and for everything that is not a base type (`panic!("Not Yet Implemented")`)
convert_type(typ) ==
    CASE typ \in {"F8", "F16", "F32", "F64", "Void"} -> typ
      [] typ = "Bool" -> "I1"
      [] OTHER -> "Panic"

\* LoweringPass::visit_function; MirFunction::new makes the entry block, id 0,
\* with terminator Unreachable
Lower_visit_function(ls, f) ==
    The({IF \/ \E i \in 1 .. Len(f.args) : convert_type(f.args[i].typ) = "Panic"
            \/ convert_type(f.return_type) = "Panic"
         THEN LowPanic(ls1)
         ELSE pop_scope(Lower_statements(
                           [ls1 EXCEPT !.arena = <<BasicBlock(<<>>, Unreachable)>>,
                                       !.current_block = 0],
                           f.body.statements, 1)) :
         ls1 \in {AllocAll(push_scope(ls), f.args, 1)}})

\* LoweringPass::visit_program; the programs that are lowered have one function
Lower_visit_program(p) ==
    The({pop_scope(Lower_visit_function(ls, p.functions[1])) :
         ls \in {AllocAll(push_scope(LoweringPassNew), p.globals, 1)}})

(***************************************************************************)
(* The programs of the model: one function, the identifier x, at most      *)
(* MaxNodes declarations and statements in all.                            *)
(***************************************************************************)
\* `x < 1`
Cond == BinaryOp(VariableExpr("x"), "<", NumberExpr(1))

\* `var x = 0`, `var x`, `x = x + 1`, `return 0`
Leaves ==
    { Assignment("x", "Auto", <<NumberExpr(0)>>),
      Assignment("x", "Auto", <<>>),
      Assignment("x", "None", <<BinaryOp(VariableExpr("x"), "+", NumberExpr(1))>>),
      Return(<<NumberExpr(0)>>) }

\* `var x = 0`, `var x` at top level: "top-level globals with no declared type
\* default to Auto"
GlobalDecls ==
    { Variable("x", "Auto", <<NumberExpr(0)>>), Variable("x", "Auto", <<>>) }

\* `x: f64`
ArgDecls == { Variable("x", "F64", <<>>) }

RECURSIVE StmtsOfSize(_)
RECURSIVE SeqsOfSize(_)

\* The statements made of exactly n statements (nested ones included)
StmtsOfSize(n) ==
    (IF n = 1 THEN Leaves ELSE {})
    \cup {While(Cond, HirBlock(b)) : b \in SeqsOfSize(n - 1)}
    \cup {BlockStmt(HirBlock(b)) : b \in SeqsOfSize(n - 1)}
    \cup {If(Cond, HirBlock(t), <<>>) : t \in SeqsOfSize(n - 1)}
    \cup UNION {{If(Cond, HirBlock(t), <<HirBlock(e)>>) :
                    t \in SeqsOfSize(k), e \in SeqsOfSize(n - 1 - k)} : k \in 0 .. (n - 1)}

\* The statement lists made of exactly n statements (nested ones included)
SeqsOfSize(n) ==
    IF n = 0 THEN {<<>>}
    ELSE UNION {{<<s>> \o r : s \in StmtsOfSize(k), r \in SeqsOfSize(n - k)} : k \in 1 .. n}

RECURSIVE SeqsOver(_, _)
SeqsOver(S, n) == IF n = 0 THEN {<<>>} ELSE {<<v>> \o r : v \in S, r \in SeqsOver(S, n - 1)}

\* p is a program of at most MaxNodes globals, parameters and statements
IsProgram(p) ==
    \E ng \in 0 .. MaxNodes : \E na \in 0 .. (MaxNodes - ng) :
        \E nb \in 0 .. (MaxNodes - ng - na) :
            \E g \in SeqsOver(GlobalDecls, ng), a \in SeqsOver(ArgDecls, na) :
                \/ nb = 0 /\ p = Program(g, <<Function("f", a, "F64", HirBlock(<<>>))>>)
                \/ \E k \in 1 .. nb : \E s \in StmtsOfSize(k), r \in SeqsOfSize(nb - k) :
                        p = Program(g, <<Function("f", a, "F64", HirBlock(<<s>> \o r))>>)

(***************************************************************************)
(* Typechecking, lowering and the SSA pass on one program, gated as in     *)
(* cli::run  (src/cli.rs).                                                 *)
(***************************************************************************)
HirIdle ==
    /\ program = <<>>
    /\ tc = [done |-> FALSE]
    /\ low = [done |-> FALSE]

\* run: TypecheckingPass, then `if has_errors { return Err }`
Typecheck ==
    /\ pc = "hir_typecheck"
    /\ \E r \in {Tc_visit_program(program)} :
          /\ tc' = [done |-> TRUE, errors |-> r.errors, panicked |-> r.panicked,
                    visits |-> r.visits, global_errors |-> r.global_errors,
                    program |-> r.program]
          /\ pc' = IF r.panicked \/ r.errors # <<>> THEN "exit" ELSE "hir_lower"
    /\ UNCHANGED <<program, low, ssaVars, notHir>>

\* run: LoweringPass::lower on the typechecked program, then
\* `if has_errors { return Err }`; the function lowered is the one handed to
\* the SSA pass
Lower ==
    /\ pc = "hir_lower"
    /\ \E ls \in {Lower_visit_program(tc.program)} :
          /\ low' = [done |-> TRUE, errors |-> ls.errors, panicked |-> ls.panicked,
                     register_cursor |-> ls.register_cursor, handed |-> ls.handed,
                     bound |-> ls.bound, returned |-> ls.returned,
                     declared |-> ls.declared]
          /\ arena' = ls.arena
          /\ entry' = 0
          /\ pc' = IF ls.panicked \/ ls.errors # <<>> THEN "exit" ELSE "ssa_cfg"
    /\ UNCHANGED <<program, tc, predecessors, successors, dom, changed, notHir>>

(***************************************************************************)
(* The programs handed to typechecking alone: the function f(), or f()     *)
(* followed by g(x: f64), each returning f64 or nothing, with at most      *)
(* MaxStmts globals and statements in all.                                 *)
(***************************************************************************)
TcExprs ==
    { NumberExpr(0), VariableExpr("x"),
      Call("f", <<>>), Call("g", <<NumberExpr(0)>>), Call("g", <<>>),
      UnaryOp("!", NumberExpr(0)), BinaryOp(NumberExpr(0), "&&", NumberExpr(0)) }

\* `var x = e`, `x = e`, `e`, `return e`, and the block `{ x = g() f() }`
TcStmts ==
    {Assignment("x", "Auto", <<e>>) : e \in TcExprs}
    \cup {BlockStmt(HirBlock(<<Assignment("x", "None", <<Call("g", <<>>)>>),
                               ExpressionStmt(Call("f", <<>>))>>))}
    \cup {Assignment("x", "None", <<e>>) : e \in TcExprs}
    \cup {ExpressionStmt(e) : e \in TcExprs}
    \cup {Return(<<e>>) : e \in TcExprs}

\* `var x = e` at top level
TcGlobals == {Variable("x", "Auto", <<e>>) : e \in TcExprs}

\* `-> f64`, or no return type: "optional, defaults to void"
ReturnTypes == {"F64", "Void"}

IsTcProgram(p) ==
    \E ng \in 0 .. MaxStmts : \E nf \in 0 .. (MaxStmts - ng) :
        \E g \in SeqsOver(TcGlobals, ng), bf \in SeqsOver(TcStmts, nf), tf \in ReturnTypes :
            \/ p = Program(g, <<Function("f", <<>>, tf, HirBlock(bf))>>)
            \/ \E nb \in 0 .. (MaxStmts - ng - nf) :
                   \E bg \in SeqsOver(TcStmts, nb), tg \in ReturnTypes :
                       p = Program(g, <<Function("f", <<>>, tf, HirBlock(bf)),
                                        Function("g", <<Variable("x", "F64", <<>>)>>, tg,
                                                 HirBlock(bg))>>)

InitTc ==
    /\ pc = "hir_typecheck"
    /\ IsTcProgram(program)
    /\ tc = [done |-> FALSE]
    /\ low = [done |-> FALSE]
    /\ SsaIdle
    /\ DriverIdle
    /\ SimpIdle
    /\ FrontIdle

TcNext == Typecheck

SpecTc == InitTc /\ [][TcNext]_vars

(***************************************************************************)
(* The programs that apply each operator once: the function                *)
(* f(x: f64 or bool) -> f64 whose body is one statement `e`, `return e` or *)
(* `var y = e`, where e is a binary or unary operation over x, 0 and x < 1.*)
(***************************************************************************)
OperatorOperands == {VariableExpr("x"), NumberExpr(0), Cond}

OperatorExprs ==
    {BinaryOp(l, op, r) : l \in OperatorOperands, r \in OperatorOperands,
                          op \in ComparisonOps \cup LogicalOps \cup ArithmeticOps}
    \cup {UnaryOp(op, v) : op \in {"-", "+", "!"}, v \in OperatorOperands}

InitOps ==
    /\ pc = "hir_typecheck"
    /\ \E e \in OperatorExprs, t \in {"F64", "Bool"} :
          \E s \in {ExpressionStmt(e), Return(<<e>>), Assignment("y", "Auto", <<e>>)} :
              program = Program(<<>>, <<Function("f", <<Variable("x", t, <<>>)>>, "F64",
                                                 HirBlock(<<s>>))>>)
    /\ tc = [done |-> FALSE]
    /\ low = [done |-> FALSE]
    /\ SsaIdle
    /\ DriverIdle
    /\ SimpIdle
    /\ FrontIdle

OpsNext ==
    \/ Typecheck
    \/ Lower

SpecOps == InitOps /\ [][OpsNext]_vars

CompileNext ==
    \/ Typecheck
    \/ Lower
    \/ SsaCfg
    \/ DomInit
    \/ DomPass

InitCompile ==
    /\ pc = "hir_typecheck"
    /\ IsProgram(program)
    /\ tc = [done |-> FALSE]
    /\ low = [done |-> FALSE]
    /\ SsaIdle
    /\ DriverIdle
    /\ SimpIdle
    /\ FrontIdle

SpecCompile == InitCompile /\ [][CompileNext]_vars

\* An arbitrary MIR function of 1 .. MaxBlocks blocks; the entry block is the
\* first block allocated (MirFunction::new).
InitCfg ==
    /\ pc = "ssa_cfg"
    /\ \E n \in 1 .. MaxBlocks :
          arena \in [1 .. n -> {BasicBlock(<<>>, t) : t \in Terminators(n)}]
    /\ entry = 0
    /\ CfgIdle
    /\ DriverIdle
    /\ HirIdle
    /\ SimpIdle
    /\ FrontIdle

SpecCfg == InitCfg /\ [][SsaNext]_vars

\* visit_function runs to its end once it is called: no step of it waits for
\* anything.
SpecCfgFair == SpecCfg /\ WF_vars(SsaNext)

(***************************************************************************)
(* The driver: cli::run  (src/cli.rs) and DiagnosticCollector              *)
(* (src/diagnostics.rs).  A collector is modelled by the number of         *)
(* messages of each severity it holds; `failed` records a lexer or parser  *)
(* Result::Err.                                                            *)
(***************************************************************************)
\* The stages in the order cli::run calls them.
Stages == <<"lex", "parse", "count", "print", "simplify", "typecheck",
            "lower", "ssa", "mir_print">>

Collector(errors, warnings, info) ==
    [errors |-> errors, warnings |-> warnings, info |-> info, failed |-> FALSE]

\* A lexer or parser result: Ok or Err; neither has a collector.
StageResult(ok) == [errors |-> 0, warnings |-> 0, info |-> 0, failed |-> ~ok]

\* The mutant used for C5: the gate also stops on warnings.
HasErrorsOrWarnings(c) == c.errors > 0 \/ c.warnings > 0

\* DiagnosticCollector::has_errors
HasErrors(c) == c.errors > 0

\* `.map_err(..)?` after the lexer and the parser: an Err ends the run.
StepResult(stage, next, r) ==
    /\ pc = stage
    /\ ran' = Append(ran, stage)
    /\ diags' = (stage :> r) @@ diags
    /\ IF r.failed
       THEN outcome' = "Err" /\ pc' = "exit"
       ELSE outcome' = outcome /\ pc' = next
    /\ UNCHANGED notDriver

\* A pass followed by its gate: the pass runs to completion, its diagnostics are
\* printed, and `if pass.diagnostics().has_errors() { return Err(..) }`.
StepPass(stage, next, c) ==
    /\ pc = stage
    /\ ran' = Append(ran, stage)
    /\ diags' = (stage :> c) @@ diags
    /\ IF HasErrors(c)
       THEN outcome' = "Err" /\ pc' = "exit"
       ELSE outcome' = outcome /\ pc' = next
    /\ UNCHANGED notDriver

\* A pass that panics (an unwrap of None, unreachable!, panic!): the process
\* aborts inside the pass, whatever its collector holds.
StepPanic(stage, c) ==
    /\ pc = stage
    /\ ran' = Append(ran, stage)
    /\ diags' = (stage :> c) @@ diags
    /\ outcome' = "Panic"
    /\ pc' = "exit"
    /\ UNCHANGED notDriver

\* LexerContext::lex: Ok(tokens) or a LexError.
RunLex == \E ok \in BOOLEAN : StepResult("lex", "parse", StageResult(ok))

\* ParserContext::parse: Ok(program) or a ParseError.
RunParse == \E ok \in BOOLEAN : StepResult("parse", "count", StageResult(ok))

\* CountingPass: four info lines, nothing else.
RunCounting == StepPass("count", "print", Collector(0, 0, 4))

\* PrintPass: reports nothing.
RunPrint == StepPass("print", "simplify", Collector(0, 0, 0))

\* ASTSimplificationPass: warnings (division or modulo by zero), one info line
\* per rewrite and the closing "Constant folded N nodes"; never an error.
RunSimplification ==
    \E w \in 0 .. MaxDiag : \E i \in 1 .. (MaxDiag + 1) :
        StepPass("simplify", "typecheck", Collector(0, w, i))

\* TypecheckingPass: any number of errors; or a panic (unreachable! on a
\* reassignment without a value).
RunTypechecking ==
    \E e \in 0 .. MaxDiag :
        \/ StepPass("typecheck", "lower", Collector(e, 0, 0))
        \/ StepPanic("typecheck", Collector(e, 0, 0))

\* LoweringPass: any number of errors; or a panic (unwrap, panic!).
RunLowering ==
    \E e \in 0 .. MaxDiag :
        \/ StepPass("lower", "ssa", Collector(e, 0, 0))
        \/ StepPanic("lower", Collector(e, 0, 0))

\* MirSSAPass: reports nothing.
RunSsa == StepPass("ssa", "mir_print", Collector(0, 0, 0))

\* MirPrintingPass: reports nothing; no gate follows it, run returns Ok(()).
RunMirPrint ==
    /\ pc = "mir_print"
    /\ ran' = Append(ran, "mir_print")
    /\ diags' = ("mir_print" :> Collector(0, 0, 0)) @@ diags
    /\ outcome' = "Ok"
    /\ pc' = "exit"
    /\ UNCHANGED notDriver

DriverNext ==
    \/ RunLex
    \/ RunParse
    \/ RunCounting
    \/ RunPrint
    \/ RunSimplification
    \/ RunTypechecking
    \/ RunLowering
    \/ RunSsa
    \/ RunMirPrint

InitDriver ==
    /\ pc = "lex"
    /\ ran = <<>>
    /\ diags = <<>>
    /\ outcome = "running"
    /\ SsaIdle
    /\ HirIdle
    /\ SimpIdle
    /\ FrontIdle

SpecDriver == InitDriver /\ [][DriverNext]_vars

(***************************************************************************)
(* f64 values.  A value is a fraction [n, d] in lowest terms with d >= 0:  *)
(* d > 0 is a finite number, [1, 0] and [-1, 0] are the infinities and     *)
(* [0, 0] is NaN.  Finite arithmetic is exact (no rounding, no overflow)   *)
(* and zero has no sign.                                                   *)
(***************************************************************************)
Abs(i) == IF i < 0 THEN -i ELSE i
Sign(i) == IF i < 0 THEN -1 ELSE IF i > 0 THEN 1 ELSE 0

RECURSIVE Gcd(_, _)
Gcd(a, b) == IF b = 0 THEN a ELSE Gcd(b, a % b)

F64(n, d) ==
    IF d = 0 THEN [n |-> Sign(n), d |-> 0]
    ELSE LET g == Gcd(Abs(n), Abs(d))
         IN [n |-> (Sign(d) * n) \div g, d |-> Abs(d) \div g]

Int64(k) == [n |-> k, d |-> 1]
IsNaN(a) == a.n = 0 /\ a.d = 0
IsInf(a) == a.n # 0 /\ a.d = 0
\* `x == 0.0`
IsZero(a) == a.n = 0 /\ a.d > 0
\* `x == 1.0`
IsOne(a) == a.n = 1 /\ a.d = 1

\* f64 `+`
F64Add(a, b) ==
    IF IsInf(a) /\ IsInf(b) THEN (IF a.n = b.n THEN a ELSE F64(0, 0))
    ELSE F64(a.n * b.d + b.n * a.d, a.d * b.d)

\* f64 unary `-`
F64Neg(a) == [n |-> -a.n, d |-> a.d]

\* f64 `-`
F64Sub(a, b) == F64Add(a, F64Neg(b))

\* f64 `*`
F64Mul(a, b) == F64(a.n * b.n, a.d * b.d)

\* f64 `/`: x / 0 is an infinity for x # 0 and NaN for x = 0
F64Div(a, b) ==
    IF IsNaN(a) \/ IsNaN(b) THEN F64(0, 0)
    ELSE IF b.n < 0 THEN F64(-(a.n * b.d), a.d * (-b.n))
    ELSE F64(a.n * b.d, a.d * b.n)

\* the integer part of n / d, rounded towards zero (d > 0)
Trunc(n, d) == Sign(n) * (Abs(n) \div d)

\* f64 `%`: the remainder has the sign of the dividend; x % 0 and inf % y are NaN
F64Rem(a, b) ==
    IF IsNaN(a) \/ IsNaN(b) \/ IsInf(a) \/ IsZero(b) THEN F64(0, 0)
    ELSE IF IsInf(b) THEN a
    ELSE LET q == Trunc(a.n * b.d, a.d * Abs(b.n))
         IN F64Sub(a, F64Mul(Int64(q * Sign(b.n)), b))

\* f64 `<`: false when an operand is NaN
F64Less(a, b) ==
    IF IsNaN(a) \/ IsNaN(b) THEN FALSE
    ELSE IF a.d = 0 /\ b.d = 0 THEN a.n < b.n
    ELSE a.n * b.d < b.n * a.d

\* f64 `==`: false when an operand is NaN
F64Eq(a, b) == ~IsNaN(a) /\ ~IsNaN(b) /\ a = b

(***************************************************************************)
(* ASTSimplificationPass  (src/hir/passes/ast_simplification.rs).  The     *)
(* pass state is the collector's counts and folded_nodes_count; a visit    *)
(* yields [st, e]: the pass state and the expression left in the tree.     *)
(* Option<f64> and Option<bool> are sequences of length 0 or 1.            *)
(***************************************************************************)
SimpNew == [errors |-> 0, warnings |-> 0, info |-> 0, folded_nodes_count |-> 0]

\* span::Span::new
Span(start_row, start_column, end_row, end_column) ==
    [start_row |-> start_row, start_column |-> start_column,
     end_row |-> end_row, end_column |-> end_column]

\* `Expression::X { .., span: expr_span, .. }` with expr_span the span of e: the
\* node n with the span of e.  The expressions of the specifications that do
\* not look at spans carry none, and n is left as it is.
WithSpanOf(n, e) == IF "span" \in DOMAIN e THEN [span |-> e.span] @@ n ELSE n

\* self.diagnostics.info(..); self.folded_nodes_count += 1
Folded(st) == [st EXCEPT !.info = @ + 1, !.folded_nodes_count = @ + 1]

\* ASTSimplificationPass::eval_binop: the value, and whether a warning is recorded
eval_binop(left, right, op) ==
    CASE op = "+" -> [value |-> <<F64Add(left, right)>>, warn |-> FALSE]
      [] op = "-" -> [value |-> <<F64Sub(left, right)>>, warn |-> FALSE]
      [] op = "*" -> [value |-> <<F64Mul(left, right)>>, warn |-> FALSE]
      [] op = "/" -> IF IsZero(right) THEN [value |-> <<>>, warn |-> TRUE]
                     ELSE [value |-> <<F64Div(left, right)>>, warn |-> FALSE]
      [] op = "%" -> IF IsZero(right) THEN [value |-> <<>>, warn |-> TRUE]
                     ELSE [value |-> <<F64Rem(left, right)>>, warn |-> FALSE]
      [] OTHER -> [value |-> <<>>, warn |-> FALSE]

\* ASTSimplificationPass::eval_unary
eval_unary(operand, op) ==
    CASE op = "-" -> <<F64Neg(operand)>>
      [] op = "+" -> <<operand>>
      [] OTHER -> <<>>

\* ASTSimplificationPass::eval_binop_to_bool_bool
eval_binop_to_bool_bool(left, right, op) ==
    CASE op = "&&" -> <<left /\ right>>
      [] op = "||" -> <<left \/ right>>
      [] op = "==" -> <<left = right>>
      [] op = "!=" -> <<left # right>>
      [] OTHER -> <<>>

\* ASTSimplificationPass::eval_binop_to_bool_number
eval_binop_to_bool_number(left, right, op) ==
    CASE op = "<" -> <<F64Less(left, right)>>
      [] op = ">" -> <<F64Less(right, left)>>
      [] op = "<=" -> <<F64Less(left, right) \/ F64Eq(left, right)>>
      [] op = ">=" -> <<F64Less(right, left) \/ F64Eq(left, right)>>
      [] op = "==" -> <<F64Eq(left, right)>>
      [] op = "!=" -> <<~F64Eq(left, right)>>
      [] OTHER -> <<>>

\* ASTSimplificationPass::eval_unary_bool
eval_unary_bool(operand, op) == IF op = "!" THEN <<~operand>> ELSE <<>>

IsConst(e) == e.kind \in {"Number", "Boolean"}

\* try_constant_fold, Expression::BinaryOp
FoldBinary(st, e) ==
    IF e.left.kind = "Number" /\ e.right.kind = "Number"
    THEN LET a == eval_binop(e.left.value, e.right.value, e.op)
             st1 == IF a.warn THEN [st EXCEPT !.warnings = @ + 1] ELSE st
             b == eval_binop_to_bool_number(e.left.value, e.right.value, e.op)
         IN IF a.value # <<>>
            THEN [st |-> Folded(st1), e |-> WithSpanOf(NumberExpr(a.value[1]), e)]
            ELSE IF b # <<>>
            THEN [st |-> Folded(st1), e |-> WithSpanOf(BooleanExpr(b[1]), e)]
            ELSE [st |-> st1, e |-> e]
    ELSE IF e.left.kind = "Boolean" /\ e.right.kind = "Boolean"
    THEN LET b == eval_binop_to_bool_bool(e.left.value, e.right.value, e.op)
         IN IF b # <<>> THEN [st |-> Folded(st), e |-> WithSpanOf(BooleanExpr(b[1]), e)]
            ELSE [st |-> st, e |-> e]
    ELSE [st |-> st, e |-> e]

\* try_constant_fold, Expression::UnaryOp
FoldUnary(st, e) ==
    IF e.left.kind = "Number" /\ eval_unary(e.left.value, e.op) # <<>>
    THEN [st |-> Folded(st),
          e |-> WithSpanOf(NumberExpr(eval_unary(e.left.value, e.op)[1]), e)]
    ELSE IF e.left.kind = "Boolean" /\ eval_unary_bool(e.left.value, e.op) # <<>>
    THEN [st |-> Folded(st),
          e |-> WithSpanOf(BooleanExpr(eval_unary_bool(e.left.value, e.op)[1]), e)]
    ELSE [st |-> st, e |-> e]

\* ASTSimplificationPass::try_constant_fold
try_constant_fold(st, e) ==
    CASE e.kind = "BinaryOp" -> FoldBinary(st, e)
      [] e.kind = "UnaryOp" -> FoldUnary(st, e)
      [] OTHER -> [st |-> st, e |-> e]

\* try_algebraic_simplify: "Normalize commutative operations: put constants on the right"
Normalize(e) ==
    IF e.op \in {"+", "*", "&&", "||", "==", "!="} /\ IsConst(e.left) /\ ~IsConst(e.right)
    THEN WithSpanOf(BinaryOp(e.right, e.op, e.left), e)
    ELSE e

\* try_algebraic_simplify: "variable identities (x op x)", <<>> when none applies
VariableIdentity(e) ==
    IF e.left.kind = "Variable" /\ e.right.kind = "Variable" /\ e.left.name = e.right.name
    THEN CASE e.op = "-" -> <<WithSpanOf(NumberExpr(Int64(0)), e)>>
           [] e.op = "==" -> <<WithSpanOf(BooleanExpr(TRUE), e)>>
           [] e.op = "!=" -> <<WithSpanOf(BooleanExpr(FALSE), e)>>
           [] e.op \in {"<", ">"} -> <<WithSpanOf(BooleanExpr(FALSE), e)>>
           [] e.op \in {"<=", ">="} -> <<WithSpanOf(BooleanExpr(TRUE), e)>>
           [] OTHER -> <<>>
    ELSE <<>>

\* try_algebraic_simplify: "Number identity simplifications" and "Boolean
\* identity simplifications", in the order of the match; <<>> when none applies
Identity(e) ==
    LET num(p(_)) == e.right.kind = "Number" /\ p(e.right.value)
        bool(b) == e.right.kind = "Boolean" /\ e.right.value = b
    IN CASE e.op = "+" /\ num(IsZero) -> <<e.left>>
         [] e.op = "-" /\ num(IsZero) -> <<e.left>>
         [] e.op = "*" /\ num(IsOne) -> <<e.left>>
         [] e.op = "*" /\ num(IsZero) -> <<WithSpanOf(NumberExpr(Int64(0)), e)>>
         [] e.op = "/" /\ num(IsOne) -> <<e.left>>
         [] e.op = "&&" /\ bool(TRUE) -> <<e.left>>
         [] e.op = "&&" /\ bool(FALSE) -> <<WithSpanOf(BooleanExpr(FALSE), e)>>
         [] e.op = "||" /\ bool(TRUE) -> <<WithSpanOf(BooleanExpr(TRUE), e)>>
         [] e.op = "||" /\ bool(FALSE) -> <<e.left>>
         [] OTHER -> <<>>

\* try_algebraic_simplify: "Handle double negation: !!x -> x"
DoubleNegation(st, e) ==
    IF e.kind = "UnaryOp" /\ e.op = "!" /\ e.left.kind = "UnaryOp" /\ e.left.op = "!"
    THEN [st |-> Folded(st), e |-> e.left.left]
    ELSE [st |-> st, e |-> e]

\* ASTSimplificationPass::try_algebraic_simplify
try_algebraic_simplify(st, e) ==
    IF e.kind = "BinaryOp"
    THEN LET n == Normalize(e)
         IN IF VariableIdentity(n) # <<>>
            THEN [st |-> Folded(st), e |-> VariableIdentity(n)[1]]
            ELSE IF Identity(n) # <<>>
            THEN DoubleNegation(Folded(st), Identity(n)[1])
            ELSE [st |-> st, e |-> n]
    ELSE DoubleNegation(st, e)

\* what visit_expression does to a node once its children have been visited
Rewrite(st, e) ==
    The({try_algebraic_simplify(f.st, f.e) : f \in {try_constant_fold(st, e)}})

RECURSIVE PreOrder_visit_expression(_, _)
RECURSIVE Simp_visit_expression(_, _)
RECURSIVE Simp_walk_expression(_, _)

\* Visitor::walk_expression: visit the children, left before right
Simp_walk_expression(st, e) ==
    CASE e.kind = "BinaryOp" ->
            The({The({[st |-> r.st, e |-> WithSpanOf(BinaryOp(l.e, e.op, r.e), e)] :
                      r \in {Simp_visit_expression(l.st, e.right)}}) :
                 l \in {Simp_visit_expression(st, e.left)}})
      [] e.kind = "UnaryOp" ->
            The({[st |-> l.st, e |-> WithSpanOf(UnaryOp(e.op, l.e), e)] :
                 l \in {Simp_visit_expression(st, e.left)}})
      [] OTHER -> [st |-> st, e |-> e]

\* The mutant used for C7: a node is rewritten before its children are visited.
PreOrder_visit_expression(st, e) ==
    The({IF w.e.kind = "BinaryOp"
         THEN The({The({[st |-> r.st, e |-> WithSpanOf(BinaryOp(l.e, w.e.op, r.e), w.e)] :
                        r \in {PreOrder_visit_expression(l.st, w.e.right)}}) :
                   l \in {PreOrder_visit_expression(w.st, w.e.left)}})
         ELSE IF w.e.kind = "UnaryOp"
         THEN The({[st |-> l.st, e |-> WithSpanOf(UnaryOp(w.e.op, l.e), w.e)] :
                   l \in {PreOrder_visit_expression(w.st, w.e.left)}})
         ELSE w :
         w \in {Rewrite(st, e)}})

\* ASTSimplificationPass::visit_expression: "First fold children (bottom-up)",
\* then try_constant_fold, then try_algebraic_simplify
Simp_visit_expression(st, e) ==
    The({Rewrite(w.st, w.e) : w \in {Simp_walk_expression(st, e)}})

\* ASTSimplificationPass::visit_program on a program whose one expression is e:
\* the walk, then the closing info "Constant folded N nodes"
Simp_visit_program(e) ==
    The({[st |-> [r.st EXCEPT !.info = @ + 1], e |-> r.e] :
         r \in {Simp_visit_expression(SimpNew, e)}})

(***************************************************************************)
(* The expressions of the model: at most MaxOps operators over the number  *)
(* literals 0 .. MaxLit, the boolean literals and the variable x.          *)
(***************************************************************************)
BinaryOps == {"+", "-", "*", "/", "%", "==", "!=", "<", ">", "<=", ">=", "&&", "||"}
UnaryOps == {"-", "+", "!"}

Literals ==
    {NumberExpr(Int64(k)) : k \in 0 .. MaxLit} \cup {BooleanExpr(b) : b \in BOOLEAN}

Atoms == Literals \cup {VariableExpr("x")}

\* The expressions with exactly n operators
RECURSIVE ExprsOfSize(_)
ExprsOfSize(n) ==
    IF n = 0 THEN Atoms
    ELSE {UnaryOp(op, l) : op \in UnaryOps, l \in ExprsOfSize(n - 1)}
         \cup UNION {{BinaryOp(l, op, r) :
                         l \in ExprsOfSize(k), op \in BinaryOps, r \in ExprsOfSize(n - 1 - k)}
                     : k \in 0 .. (n - 1)}

\* e is an expression with at most MaxOps operators: an atom, or an operator
\* over smaller expressions
IsExpr(e) ==
    \E n \in 0 .. MaxOps :
        \/ n = 0 /\ e \in Atoms
        \/ n > 0 /\ \E op \in UnaryOps, l \in ExprsOfSize(n - 1) : e = UnaryOp(op, l)
        \/ n > 0 /\ \E k \in 0 .. (n - 1), op \in BinaryOps :
                        \E l \in ExprsOfSize(k), r \in ExprsOfSize(n - 1 - k) :
                            e = BinaryOp(l, op, r)

(***************************************************************************)
(* The simplification pass run on an expression, and run again on its      *)
(* result.                                                                 *)
(***************************************************************************)
\* cli::run: ASTSimplificationPass::new() and visit_program
Simplify ==
    /\ pc = "simplify"
    /\ \E r \in {Simp_visit_program(expr)} : once' = [done |-> TRUE, st |-> r.st, e |-> r.e]
    /\ pc' = "simplify_again"
    /\ UNCHANGED <<expr, twice, notSimp>>

\* a second pass, with a new ASTSimplificationPass, over the tree the first one left
SimplifyAgain ==
    /\ pc = "simplify_again"
    /\ \E r \in {Simp_visit_program(once.e)} : twice' = [done |-> TRUE, st |-> r.st, e |-> r.e]
    /\ pc' = "simplified"
    /\ UNCHANGED <<expr, once, notSimp>>

SimpNext == Simplify \/ SimplifyAgain

InitSimp ==
    /\ pc = "simplify"
    /\ IsExpr(expr)
    /\ once = [done |-> FALSE]
    /\ twice = [done |-> FALSE]
    /\ SsaIdle
    /\ DriverIdle
    /\ HirIdle
    /\ FrontIdle

SpecSimp == InitSimp /\ [][SimpNext]_vars

(***************************************************************************)
(* The same expressions as the parser leaves them: on one row, every       *)
(* literal, name and operator one column wide, each node with its covering *)
(* span ("merged from the first and last consumed tokens").                *)
(***************************************************************************)
\* The number of tokens of e
RECURSIVE Width(_)
Width(e) ==
    CASE e.kind = "BinaryOp" -> Width(e.left) + 1 + Width(e.right)
      [] e.kind = "UnaryOp" -> 1 + Width(e.left)
      [] OTHER -> 1

\* e as it is parsed when its first token is at `column`
RECURSIVE Located(_, _)
Located(e, column) ==
    [span |-> Span(0, column, 0, column + Width(e))]
    @@ (CASE e.kind = "BinaryOp" ->
                BinaryOp(Located(e.left, column), e.op,
                         Located(e.right, column + Width(e.left) + 1))
          [] e.kind = "UnaryOp" -> UnaryOp(e.op, Located(e.left, column + 1))
          [] OTHER -> e)

InitSpan ==
    /\ pc = "simplify"
    /\ \E n \in 0 .. MaxOps : \E e \in ExprsOfSize(n) : expr = Located(e, 0)
    /\ once = [done |-> FALSE]
    /\ twice = [done |-> FALSE]
    /\ SsaIdle
    /\ DriverIdle
    /\ HirIdle
    /\ FrontIdle

SpecSpan == InitSpan /\ [][SimpNext]_vars

(***************************************************************************)
(* The lexer: LexerContext  (src/lexer.rs).  The input is a sequence of    *)
(* characters (strings of length one); a lexeme is a string.  One action   *)
(* is one iteration of the loop of lex.                                    *)
(***************************************************************************)
\* Token { tag, lexeme, row, column }
Token(tag, lexeme, row, column) ==
    [tag |-> tag, lexeme |-> lexeme, row |-> row, column |-> column]

\* LexError { message, row, column }
LexError(message, row, column) ==
    [message |-> message, row |-> row, column |-> column]

\* char::is_whitespace, char::is_ascii_digit, char::is_alphabetic and
\* char::is_alphanumeric on the ASCII characters
IsWhitespace(c) == c \in {" ", "\n", "\t", "\r"}

IsAsciiDigit(c) == c \in {"0", "1", "2", "3", "4", "5", "6", "7", "8", "9"}

IsAlphabetic(c) ==
    c \in {"a", "b", "c", "d", "e", "f", "g", "h", "i", "j", "k", "l", "m",
           "n", "o", "p", "q", "r", "s", "t", "u", "v", "w", "x", "y", "z"}

IsAlphanumeric(c) == IsAlphabetic(c) \/ IsAsciiDigit(c)

\* LexerContext::peek: the character `lookahead` places after the cursor
peek(l, lookahead) ==
    IF l.cursor + lookahead < Len(input) THEN input[l.cursor + lookahead + 1] ELSE "None"

\* LexerContext::advance
advance(l) ==
    IF peek(l, 0) = "None" THEN l
    ELSE IF peek(l, 0) = "\n"
         THEN [l EXCEPT !.column = 0, !.row = @ + 1, !.cursor = @ + 1]
         ELSE [l EXCEPT !.column = @ + 1, !.cursor = @ + 1]

\* LexerContext::advance_by
RECURSIVE advance_by(_, _)
advance_by(l, n) == IF n = 0 THEN l ELSE advance_by(advance(l), n - 1)

\* LexerContext::add_token: the token is tagged with the current row and column
add_token(l, tag, lexeme) ==
    [l EXCEPT !.tokens = Append(@, Token(tag, lexeme, l.row, l.column))]

\* LexerContext::push_token
push_token(l, tag, lexeme) == advance_by(add_token(l, tag, lexeme), Len(lexeme))

\* the table of try_push_multi_char_token
MultiCharToken(c, next) ==
    CASE c = "=" /\ next = "=" -> "Equal"
      [] c = "!" /\ next = "=" -> "NotEqual"
      [] c = "<" /\ next = "=" -> "LessEqual"
      [] c = ">" /\ next = "=" -> "GreaterEqual"
      [] c = "&" /\ next = "&" -> "And"
      [] c = "|" /\ next = "|" -> "Or"
      [] c = "-" /\ next = ">" -> "Arrow"
      [] OTHER -> "None"

\* the table of try_push_single_char_token
SingleCharToken(c) ==
    CASE c = "(" -> "LParen"
      [] c = ")" -> "RParen"
      [] c = "{" -> "LBrace"
      [] c = "}" -> "RBrace"
      [] c = ";" -> "Semicolon"
      [] c = ":" -> "Colon"
      [] c = "+" -> "Plus"
      [] c = "," -> "Comma"
      [] c = "-" -> "Minus"
      [] c = "/" -> "Slash"
      [] c = "*" -> "Star"
      [] c = ">" -> "Greater"
      [] c = "<" -> "Less"
      [] c = "=" -> "Assign"
      [] c = "!" -> "Bang"
      [] c = "|" -> "Pipe"
      [] c = "&" -> "Ampersand"
      [] c = "^" -> "Caret"
      [] c = "%" -> "Percent"
      [] c = "$" -> "Dollar"
      [] c = "@" -> "At"
      [] c = "~" -> "Tilde"
      [] OTHER -> "None"

\* the keyword table of lex
Keyword(lexeme) ==
    CASE lexeme = "fn" -> "Fn"
      [] lexeme = "extern" -> "Extern"
      [] lexeme = "var" -> "Var"
      [] lexeme = "if" -> "If"
      [] lexeme = "else" -> "Else"
      [] lexeme = "then" -> "Then"
      [] lexeme = "for" -> "For"
      [] lexeme = "in" -> "In"
      [] lexeme = "while" -> "While"
      [] lexeme = "return" -> "Return"
      [] lexeme = "f8" -> "F8Type"
      [] lexeme = "f16" -> "F16Type"
      [] lexeme = "f32" -> "F32Type"
      [] lexeme = "f64" -> "F64Type"
      [] OTHER -> "Identifier"

\* input[start..end]
RECURSIVE Slice(_, _)
Slice(start, end) ==
    IF start >= end \/ start >= Len(input) THEN ""
    ELSE input[start + 1] \o Slice(start + 1, end)

\* the loop of a line comment: advance up to the end of the line
RECURSIVE skip_comment(_)
skip_comment(l) ==
    IF peek(l, 0) \notin {"None", "\n"} THEN skip_comment(advance(l)) ELSE l

\* the loop of a number: digits and at most one dot
RECURSIVE number_tail(_, _)
number_tail(l, has_dot) ==
    IF IsAsciiDigit(peek(l, 0)) THEN number_tail(advance(l), has_dot)
    ELSE IF peek(l, 0) = "." /\ ~has_dot THEN number_tail(advance(l), TRUE)
    ELSE l

\* the loop of an identifier or keyword
RECURSIVE identifier_tail(_)
identifier_tail(l) ==
    IF IsAlphanumeric(peek(l, 0)) \/ peek(l, 0) = "_" THEN identifier_tail(advance(l)) ELSE l

\* lex: the LexerContext it starts from
LexNew ==
    [status |-> "lexing", tokens |-> <<>>, row |-> 0, column |-> 0, cursor |-> 0,
     error |-> <<>>]

Lexing == pc = "lexer" /\ lx.status = "lexing"

LexWhitespace ==
    /\ Lexing
    /\ IsWhitespace(peek(lx, 0))
    /\ lx' = advance(lx)
    /\ UNCHANGED <<pc, input, notLex>>

LexComment ==
    /\ Lexing
    /\ peek(lx, 0) = "#"
    /\ lx' = skip_comment(lx)
    /\ UNCHANGED <<pc, input, notLex>>

LexMultiChar ==
    /\ Lexing
    /\ ~IsWhitespace(peek(lx, 0)) /\ peek(lx, 0) \notin {"None", "#"}
    /\ MultiCharToken(peek(lx, 0), peek(lx, 1)) # "None"
    /\ lx' = push_token(lx, MultiCharToken(peek(lx, 0), peek(lx, 1)),
                        peek(lx, 0) \o peek(lx, 1))
    /\ UNCHANGED <<pc, input, notLex>>

LexSingleChar ==
    /\ Lexing
    /\ ~IsWhitespace(peek(lx, 0)) /\ peek(lx, 0) \notin {"None", "#"}
    /\ MultiCharToken(peek(lx, 0), peek(lx, 1)) = "None"
    /\ SingleCharToken(peek(lx, 0)) # "None"
    /\ lx' = push_token(lx, SingleCharToken(peek(lx, 0)), peek(lx, 0))
    /\ UNCHANGED <<pc, input, notLex>>

LexNumber ==
    /\ Lexing
    /\ IsAsciiDigit(peek(lx, 0))
    /\ \E l \in {number_tail(advance(lx), FALSE)} :
          lx' = add_token(l, "Number", Slice(lx.cursor, l.cursor))
    /\ UNCHANGED <<pc, input, notLex>>

LexIdentifier ==
    /\ Lexing
    /\ IsAlphabetic(peek(lx, 0)) \/ peek(lx, 0) = "_"
    /\ \E l \in {identifier_tail(advance(lx))} :
          lx' = add_token(l, Keyword(Slice(lx.cursor, l.cursor)), Slice(lx.cursor, l.cursor))
    /\ UNCHANGED <<pc, input, notLex>>

\* an unknown character: Err(LexError) with the 1-based row and column
LexUnexpected ==
    /\ Lexing
    /\ ~IsWhitespace(peek(lx, 0)) /\ peek(lx, 0) \notin {"None", "#"}
    /\ SingleCharToken(peek(lx, 0)) = "None"
    /\ ~IsAlphanumeric(peek(lx, 0)) /\ peek(lx, 0) # "_"
    /\ lx' = [lx EXCEPT !.status = "Err",
                        !.error = <<LexError("Unexpected character", lx.row + 1,
                                             lx.column + 1)>>]
    /\ UNCHANGED <<pc, input, notLex>>

\* the end of the input: the Eof token, and Ok(tokens)
LexEof ==
    /\ Lexing
    /\ peek(lx, 0) = "None"
    /\ lx' = [add_token(lx, "Eof", "") EXCEPT !.status = "Ok"]
    /\ UNCHANGED <<pc, input, notLex>>

LexNext ==
    \/ LexWhitespace
    \/ LexComment
    \/ LexMultiChar
    \/ LexSingleChar
    \/ LexNumber
    \/ LexIdentifier
    \/ LexUnexpected
    \/ LexEof

\* the characters of the inputs of the model
Alphabet == {" ", "\n", "#", "=", "+", "1", ".", "i", "f", "?"}

InitLex ==
    /\ pc = "lexer"
    /\ \E n \in 0 .. MaxInput : input \in [1 .. n -> Alphabet]
    /\ lx = LexNew
    /\ ParseIdle
    /\ SsaIdle
    /\ DriverIdle
    /\ HirIdle
    /\ SimpIdle

SpecLex == InitLex /\ [][LexNext]_vars

(***************************************************************************)
(* The parser: ParserContext  (src/parser.rs).  A sub-parser takes the     *)
(* context (the position in `tokens`) and returns Ok or Err together with  *)
(* the context as it leaves it.  `discarded` is a history field: the       *)
(* errors of the sub-parsers whose Err was turned into None by `.ok()`.    *)
(***************************************************************************)
\* ParseError { message }; `at` is the row and column the message names, if any
ParseError(message, at) == [message |-> message, at |-> at]

Ok(c, value) == [ok |-> TRUE, context |-> c, value |-> value]

Err(c, error) == [ok |-> FALSE, context |-> c, error |-> error]

\* the `?` operator: an Err is returned as it is
AndThen(S, F(_)) == The({IF r.ok THEN F(r) ELSE r : r \in S})

\* `.ok()`: an Err becomes None; the parser goes on from where the failure left it
OkOrNone(r) ==
    IF r.ok THEN Ok(r.context, <<r.value>>)
    ELSE Ok([r.context EXCEPT !.discarded = Append(@, r.error)], <<>>)

\* ParserContext::new
ParserNew == [position |-> 0, discarded |-> <<>>]

\* Statement::FunctionDefinition
FunctionDefinition(name, args, return_type, body) ==
    [kind |-> "FunctionDefinition", name |-> name, args |-> args,
     return_type |-> return_type, body |-> body]

\* Type::PointerType
PointerType(inner) == [kind |-> "PointerType", inner |-> inner]

\* ParserContext::get_precedence
get_precedence(token_type) ==
    CASE token_type = "Or" -> 5
      [] token_type = "And" -> 6
      [] token_type \in {"Equal", "NotEqual"} -> 10
      [] token_type \in {"Less", "Greater", "LessEqual", "GreaterEqual"} -> 10
      [] token_type \in {"Plus", "Minus"} -> 20
      [] token_type \in {"Star", "Slash", "Percent"} -> 40
      [] OTHER -> -1

\* tokens.get(..) past the end
NoToken == [tag |-> "None", lexeme |-> ""]

\* ParserContext::peek_offset
peek_offset(c, offset) ==
    IF c.position + offset < Len(tokens) THEN tokens[c.position + offset + 1] ELSE NoToken

\* ParserContext::peek
peek_token(c) == peek_offset(c, 0)

\* ParserContext::consume: the context after it (its token is peek_token before it)
consume(c) == IF c.position < Len(tokens) THEN [c EXCEPT !.position = @ + 1] ELSE c

\* ParserContext::consume_optional
consume_optional(c, expected_type) ==
    IF peek_token(c).tag = expected_type THEN consume(c) ELSE c

\* ParserContext::consume_assert: "<message> at <row>:<column> (got <tag>)"
consume_assert(c, expected_type, message) ==
    LET tok == peek_token(c)
    IN IF tok.tag = expected_type THEN Ok(consume(c), tok)
       ELSE IF tok.tag # "None"
            THEN Err(consume(c), ParseError(message, <<tok.row, tok.column>>))
            ELSE Err(c, ParseError(message, <<>>))

\* token.lexeme.parse::<f64>() on the number lexemes of the model
NumberValue(lexeme) ==
    CASE lexeme = "0" -> 0
      [] lexeme = "1" -> 1
      [] lexeme = "2" -> 2

\* ParserContext::parse_type
RECURSIVE parse_type(_)
parse_type(c) ==
    LET token == peek_token(c)
    IN CASE token.tag = "Star" ->
                AndThen({parse_type(consume(c))},
                        LAMBDA t : Ok(t.context, PointerType(t.value)))
         [] token.tag = "F8Type" -> Ok(consume(c), "F8")
         [] token.tag = "F16Type" -> Ok(consume(c), "F16")
         [] token.tag = "F32Type" -> Ok(consume(c), "F32")
         [] token.tag = "F64Type" -> Ok(consume(c), "F64")
         [] token.tag = "None" -> Err(c, ParseError("Expected type, got end of input", <<>>))
         [] OTHER -> Err(c, ParseError("Expected type", <<>>))

RECURSIVE parse_statement(_)
RECURSIVE parse_block_loop(_, _)
RECURSIVE parse_expression(_)
RECURSIVE parse_unary(_)
RECURSIVE parse_primary(_)
RECURSIVE parse_binop_rhs(_, _, _)
RECURSIVE parse_binop_rhs_RightAssoc(_, _, _)
RECURSIVE parse_call_args(_, _)
RECURSIVE parse_args(_, _)

\* parse_block, the while loop
parse_block_loop(c, statements) ==
    IF peek_token(c).tag \in {"None", "RBrace"} THEN Ok(c, HirBlock(statements))
    ELSE AndThen({parse_statement(c)},
                 LAMBDA s : parse_block_loop(s.context, Append(statements, s.value)))

\* ParserContext::parse_block
parse_block(c) == parse_block_loop(c, <<>>)

\* parse_primary, Identifier followed by LParen: the arguments after the first
parse_call_args(c, args) ==
    IF peek_token(c).tag = "Comma"
    THEN AndThen({parse_expression(consume(c))},
                 LAMBDA e : parse_call_args(e.context, Append(args, e.value)))
    ELSE Ok(c, args)

\* ParserContext::parse_primary
parse_primary(c) ==
    LET token == peek_token(c)
    IN CASE token.tag = "LParen" ->
                AndThen({parse_expression(consume(c))}, LAMBDA e :
                AndThen({consume_assert(e.context, "RParen", "Expected ')' after expression")},
                        LAMBDA t : Ok(t.context, e.value)))
         [] token.tag = "Number" -> Ok(consume(c), NumberExpr(NumberValue(token.lexeme)))
         [] token.tag = "Identifier" ->
                IF peek_offset(c, 1).tag = "LParen"
                THEN AndThen({IF peek_offset(c, 2).tag \in {"None", "RParen"}
                              THEN Ok(consume(consume(c)), <<>>)
                              ELSE AndThen({parse_expression(consume(consume(c)))}, LAMBDA e :
                                           parse_call_args(e.context, <<e.value>>))},
                             LAMBDA a :
                     AndThen({consume_assert(a.context, "RParen", "Expected ')' after arguments")},
                             LAMBDA t : Ok(t.context, Call(token.lexeme, a.value))))
                ELSE Ok(consume(c), VariableExpr(token.lexeme))
         [] token.tag = "None" ->
                Err(c, ParseError("Unexpected end of input in expression", <<>>))
         [] OTHER -> Err(c, ParseError("Unexpected token in expression", <<>>))

\* ParserContext::parse_unary
parse_unary(c) ==
    LET token == peek_token(c)
    IN CASE token.tag \in {"Plus", "Minus", "Bang"} ->
                AndThen({parse_unary(consume(c))},
                        LAMBDA e : Ok(e.context, UnaryOp(token.lexeme, e.value)))
         [] token.tag = "None" ->
                Err(c, ParseError("Unexpected end of input in expression", <<>>))
         [] OTHER -> parse_primary(c)

\* parse_binop_rhs with `tok_prec <= next_prec` and a recursion at tok_prec:
\* operators of equal precedence group to the right
parse_binop_rhs_RightAssoc(c, expr_prec, lhs) ==
    LET op == peek_token(c)
        tok_prec == get_precedence(op.tag)
    IN IF op.tag = "None" \/ tok_prec < expr_prec THEN Ok(c, lhs)
       ELSE AndThen({parse_unary(consume(c))}, LAMBDA u :
            AndThen({IF tok_prec <= get_precedence(peek_token(u.context).tag)
                     THEN parse_binop_rhs_RightAssoc(u.context, tok_prec, u.value)
                     ELSE u},
                    LAMBDA rhs : parse_binop_rhs_RightAssoc(
                                     rhs.context, expr_prec,
                                     BinaryOp(lhs, op.lexeme, rhs.value))))

\* ParserContext::parse_binop_rhs: one turn of its loop, then the rest of the loop
parse_binop_rhs(c, expr_prec, lhs) ==
    LET op == peek_token(c)
        tok_prec == get_precedence(op.tag)
    IN IF op.tag = "None" \/ tok_prec < expr_prec THEN Ok(c, lhs)
       ELSE AndThen({parse_unary(consume(c))}, LAMBDA u :
            AndThen({IF tok_prec < get_precedence(peek_token(u.context).tag)
                     THEN parse_binop_rhs(u.context, tok_prec + 1, u.value)
                     ELSE u},
                    LAMBDA rhs : parse_binop_rhs(rhs.context, expr_prec,
                                                 BinaryOp(lhs, op.lexeme, rhs.value))))

\* ParserContext::parse_expression
parse_expression(c) ==
    AndThen({parse_unary(c)}, LAMBDA lhs : parse_binop_rhs(lhs.context, 0, lhs.value))

\* parse_statement, Fn: the loop over the argument list
parse_args(c, args) ==
    IF peek_token(c).tag \in {"None", "RParen"} THEN Ok(c, args)
    ELSE AndThen({consume_assert(c, "Identifier", "Expected argument name")}, LAMBDA arg_name :
         AndThen({consume_assert(arg_name.context, "Colon", "Expected ':' after argument name")},
                 LAMBDA colon :
         AndThen({parse_type(colon.context)}, LAMBDA arg_type :
         AndThen({IF peek_token(arg_type.context).tag = "Assign"
                  THEN AndThen({parse_expression(consume(arg_type.context))},
                               LAMBDA e : Ok(e.context, <<e.value>>))
                  ELSE Ok(arg_type.context, <<>>)},
                 LAMBDA initializer :
                     parse_args(consume_optional(initializer.context, "Comma"),
                                Append(args, Variable(arg_name.value.lexeme, arg_type.value,
                                                      initializer.value)))))))

\* parse_statement, Fn
parse_function(c) ==
    AndThen({consume_assert(consume(c), "Identifier", "Expected function name after 'fn'")},
            LAMBDA name :
    AndThen({consume_assert(name.context, "LParen", "Expected '(' after function name")},
            LAMBDA lparen :
    AndThen({parse_args(lparen.context, <<>>)}, LAMBDA args :
    AndThen({consume_assert(args.context, "RParen", "Expected ')' after arguments")},
            LAMBDA rparen :
    AndThen({IF peek_token(rparen.context).tag = "Arrow"
             THEN parse_type(consume(rparen.context))
             ELSE Ok(rparen.context, "Void")},
            LAMBDA return_type :
    AndThen({consume_assert(return_type.context, "LBrace", "Expected '{' before function body")},
            LAMBDA lbrace :
    AndThen({parse_block(lbrace.context)}, LAMBDA body :
    AndThen({consume_assert(body.context, "RBrace", "Expected '}' after function body")},
            LAMBDA rbrace :
                Ok(rbrace.context,
                   FunctionDefinition(name.value.lexeme, args.value, return_type.value,
                                      body.value))))))))))

\* parse_statement, While and If: the condition and the braced block after it
parse_condition_and_block(c, missing_open, missing_close) ==
    AndThen({parse_expression(consume_optional(consume(c), "LParen"))}, LAMBDA condition :
    AndThen({consume_assert(consume_optional(condition.context, "RParen"), "LBrace",
                            missing_open)},
            LAMBDA lbrace :
    AndThen({parse_block(lbrace.context)}, LAMBDA body :
    AndThen({consume_assert(body.context, "RBrace", missing_close)}, LAMBDA rbrace :
                Ok(rbrace.context, [condition |-> condition.value, body |-> body.value])))))

\* parse_statement, If: the optional else block
parse_else(c) ==
    IF peek_token(c).tag = "Else"
    THEN AndThen({consume_assert(consume(c), "LBrace", "Expected '{' after 'else'")},
                 LAMBDA lbrace :
         AndThen({parse_block(lbrace.context)}, LAMBDA block :
         AndThen({consume_assert(block.context, "RBrace", "Expected '}' after else body")},
                 LAMBDA rbrace : Ok(rbrace.context, <<block.value>>))))
    ELSE Ok(c, <<>>)

\* parse_statement, Var
parse_var(c) ==
    AndThen({consume_assert(consume(c), "Identifier", "Expected an identifier after 'var'")},
            LAMBDA identifier :
    AndThen({IF peek_token(identifier.context).tag = "Colon"
             THEN parse_type(consume(identifier.context))
             ELSE Ok(identifier.context, "Auto")},
            LAMBDA typ :
    AndThen({IF peek_token(typ.context).tag = "Assign"
             THEN OkOrNone(parse_expression(consume(typ.context)))
             ELSE Ok(typ.context, <<>>)},
            LAMBDA right :
                Ok(right.context,
                   Assignment(identifier.value.lexeme, typ.value, right.value)))))

\* ParserContext::parse_statement
parse_statement(c) ==
    LET token == peek_token(c)
    IN CASE token.tag = "Semicolon" ->
                Err(c, ParseError("Unexpected semicolon", <<token.row, token.column>>))
         [] token.tag = "Fn" -> parse_function(c)
         [] token.tag = "LBrace" ->
                AndThen({parse_block(consume(c))}, LAMBDA body :
                AndThen({consume_assert(body.context, "RBrace", "Missing } after body")},
                        LAMBDA rbrace : Ok(rbrace.context, BlockStmt(body.value))))
         [] token.tag = "Return" ->
                IF peek_offset(c, 1).tag \in {"RBrace", "Eof", "None"}
                THEN Ok(consume(c), Return(<<>>))
                ELSE AndThen({parse_expression(consume(c))},
                             LAMBDA e : Ok(e.context, Return(<<e.value>>)))
         [] token.tag = "While" ->
                AndThen({parse_condition_and_block(c, "Missing { after while conditional",
                                                   "Missing } after while body")},
                        LAMBDA w : Ok(w.context, While(w.value.condition, w.value.body)))
         [] token.tag = "If" ->
                AndThen({parse_condition_and_block(c, "Missing { after if conditional",
                                                   "Missing } after if body")},
                        LAMBDA then :
                AndThen({parse_else(then.context)}, LAMBDA els :
                        Ok(els.context, If(then.value.condition, then.value.body, els.value))))
         [] token.tag = "Identifier" ->
                IF peek_offset(c, 1).tag = "Assign"
                THEN AndThen({OkOrNone(parse_expression(consume(consume(c))))}, LAMBDA right :
                             Ok(right.context, Assignment(token.lexeme, "None", right.value)))
                ELSE IF peek_offset(c, 1).tag # "None"
                THEN AndThen({parse_expression(c)},
                             LAMBDA e : Ok(e.context, ExpressionStmt(e.value)))
                ELSE Err(c, ParseError("Unexpected end of input", <<>>))
         [] token.tag = "Var" -> parse_var(c)
         [] token.tag = "None" -> Err(c, ParseError("Unexpected end of input", <<>>))
         [] OTHER -> Err(c, ParseError("Unexpected token", <<>>))

\* ParserContext::parse, the while loop.  The message of the last arm prints the
\* statement and names no row or column of it.
RECURSIVE parse_loop(_, _, _)
parse_loop(c, globals, functions) ==
    IF peek_token(c).tag \in {"None", "Eof"} THEN Ok(c, Program(globals, functions))
    ELSE AndThen({parse_statement(c)}, LAMBDA s :
             CASE s.value.kind = "Assignment" ->
                      parse_loop(s.context,
                                 Append(globals,
                                        Variable(s.value.left,
                                                 IF s.value.typ = "None" THEN "Auto"
                                                 ELSE s.value.typ,
                                                 s.value.right)),
                                 functions)
               [] s.value.kind = "FunctionDefinition" ->
                      parse_loop(s.context, globals,
                                 Append(functions,
                                        Function(s.value.name, s.value.args,
                                                 s.value.return_type, s.value.body)))
               [] OTHER ->
                      Err(s.context, ParseError("Unexpected statement at top level", <<>>)))

\* ParserContext::parse
parse(c) == parse_loop(c, <<>>, <<>>)

\* What a call of the parser returned, and the context it left
Returned(r) ==
    [done |-> TRUE, ok |-> r.ok, position |-> r.context.position,
     discarded |-> r.context.discarded,
     value |-> IF r.ok THEN <<r.value>> ELSE <<>>,
     error |-> IF r.ok THEN <<>> ELSE <<r.error>>]

\* ParserContext::new(tokens).parse()
Parse ==
    /\ pc = "parse"
    /\ ~parsed.done
    /\ \E r \in {parse(ParserNew)} : parsed' = Returned(r)
    /\ UNCHANGED <<pc, tokens, notParse>>

\* ParserContext::new(tokens).parse_expression()
ParseExpression ==
    /\ pc = "parse_expression"
    /\ ~parsed.done
    /\ \E r \in {parse_expression(ParserNew)} : parsed' = Returned(r)
    /\ UNCHANGED <<pc, tokens, notParse>>

\* the lexeme the lexer gives a token of each tag of the model
Lexeme(tag) ==
    CASE tag = "Fn" -> "fn"
      [] tag = "Var" -> "var"
      [] tag = "Return" -> "return"
      [] tag = "While" -> "while"
      [] tag = "If" -> "if"
      [] tag = "F64Type" -> "f64"
      [] tag = "Identifier" -> "x"
      [] tag = "Number" -> "1"
      [] tag = "Assign" -> "="
      [] tag = "Semicolon" -> ";"
      [] tag = "Colon" -> ":"
      [] tag = "LParen" -> "("
      [] tag = "RParen" -> ")"
      [] tag = "LBrace" -> "{"
      [] tag = "RBrace" -> "}"
      [] tag = "Or" -> "||"
      [] tag = "And" -> "&&"
      [] tag = "Equal" -> "=="
      [] tag = "NotEqual" -> "!="
      [] tag = "Less" -> "<"
      [] tag = "Greater" -> ">"
      [] tag = "LessEqual" -> "<="
      [] tag = "GreaterEqual" -> ">="
      [] tag = "Plus" -> "+"
      [] tag = "Minus" -> "-"
      [] tag = "Star" -> "*"
      [] tag = "Slash" -> "/"
      [] tag = "Percent" -> "%"
      [] tag = "Bang" -> "!"
      [] tag = "Eof" -> ""

\* The tokens of one line: the k-th token stands in column k - 1 of row 0, and
\* the Eof token ends the sequence.
Line(tags) ==
    [k \in 1 .. Len(tags) + 1 |->
        IF k <= Len(tags) THEN Token(tags[k], Lexeme(tags[k]), 0, k - 1)
        ELSE Token("Eof", "", 0, k - 1)]

\* the tags of the free part of a token sequence handed to parse
StatementTags ==
    {"Var", "Identifier", "Number", "Assign", "Semicolon", "Colon", "F64Type",
     "LParen", "RParen", "LBrace", "RBrace", "Plus", "Return", "While", "If"}

\* `fn x ( ) {`  and  `}`
FnOpen == <<"Fn", "Identifier", "LParen", "RParen", "LBrace">>

FnClose == <<"RBrace">>

\* Up to MaxTokens tokens, at top level or as the body of a function
InitParse ==
    /\ pc = "parse"
    /\ \E n \in 0 .. MaxTokens : \E tags \in [1 .. n -> StatementTags] :
          \/ tokens = Line(tags)
          \/ tokens = Line(FnOpen \o tags \o FnClose)
    /\ parsed = [done |-> FALSE]
    /\ LexIdle
    /\ SsaIdle
    /\ DriverIdle
    /\ HirIdle
    /\ SimpIdle

ParseNext == Parse

SpecParse == InitParse /\ [][ParseNext]_vars

\* the tags get_precedence gives a precedence, and the tags parse_unary takes
BinaryTags ==
    {"Or", "And", "Equal", "NotEqual", "Less", "Greater", "LessEqual", "GreaterEqual",
     "Plus", "Minus", "Star", "Slash", "Percent"}

UnaryPrefixes == {<<>>, <<"Minus">>, <<"Plus", "Bang">>}

\* the k-th operand is the identifier named by the k-th letter
OperandName(k) == <<"a", "b", "c", "d", "e", "f">>[k]

\* operand (operator operand)*, where operand number `at` carries the unary
\* operators `prefix`: the tags and lexemes, in order
RECURSIVE Operands(_, _, _, _)
Operands(ops, prefix, at, k) ==
    (IF k = at THEN [i \in 1 .. Len(prefix) |-> <<prefix[i], Lexeme(prefix[i])>>] ELSE <<>>)
    \o <<<<"Identifier", OperandName(k)>>>>
    \o (IF k > Len(ops) THEN <<>>
        ELSE <<<<ops[k], Lexeme(ops[k])>>>> \o Operands(ops, prefix, at, k + 1))

\* the tokens of one line from their tags and lexemes, as Line
Positioned(items) ==
    [k \in 1 .. Len(items) + 1 |->
        IF k <= Len(items) THEN Token(items[k][1], items[k][2], 0, k - 1)
        ELSE Token("Eof", "", 0, k - 1)]

\* An expression of up to MaxBinOps binary operators over distinct operands
InitExpr ==
    /\ pc = "parse_expression"
    /\ \E n \in 0 .. MaxBinOps : \E ops \in [1 .. n -> BinaryTags] :
       \E prefix \in UnaryPrefixes : \E at \in 1 .. n + 1 :
          tokens = Positioned(Operands(ops, prefix, at, 1))
    /\ parsed = [done |-> FALSE]
    /\ LexIdle
    /\ SsaIdle
    /\ DriverIdle
    /\ HirIdle
    /\ SimpIdle

ExprNext == ParseExpression

SpecExpr == InitExpr /\ [][ExprNext]_vars

(***************************************************************************)
(* Graph notions used to state the claims about the CFG and dominators.    *)
(***************************************************************************)
\* The block ids a terminator names, in the order it names them.
TermTargets(t) ==
    CASE t.kind = "Br" -> <<t.target>>
      [] t.kind = "BrIf" -> <<t.then_bb, t.else_bb>>
      [] OTHER -> <<>>

Count(x, s) == Cardinality({i \in 1 .. Len(s) : s[i] = x})

Range(s) == {s[i] : i \in 1 .. Len(s)}

\* The blocks one terminator edge away from a block of S.
EdgeTargets(ar, S) == UNION {Range(TermTargets(Block(ar, b).terminator)) : b \in S}

RECURSIVE ReachFrom(_, _)
ReachFrom(ar, S) ==
    LET T == S \cup EdgeTargets(ar, S) IN
    IF T = S THEN S ELSE ReachFrom(ar, T)

\* The blocks reachable from the entry block through terminator edges.
Reachable == ReachFrom(arena, {entry})

\* The blocks whose terminator names n.
PredSet(n) == {p \in BlockIds(arena) : n \in Range(TermTargets(Block(arena, p).terminator))}

Intersection(sets) == {x \in UNION sets : \A s \in sets : x \in s}

\* C3: once compute_dominators has returned, the entry block is in dom(n) for
\* every block n reachable from entry, n is in dom(n) for every block n, and for
\* every reachable n other than entry dom(n) = {n} \cup the intersection of
\* dom(p) over all predecessors p of n.
C3_DominatorInvariants ==
    pc = "ssa_done" =>
        /\ \A n \in Reachable : entry \in dom[n]
        /\ \A n \in BlockIds(arena) : n \in dom[n]
        /\ \A n \in Reachable \ {entry} :
              dom[n] = {n} \cup Intersection({dom[p] : p \in PredSet(n)})

\* C3 witness: the pass has returned on a function with a reachable join block
\* that has two different predecessors, one of them inside a loop through the
\* join, and whose dominator set has shrunk from the initial "all blocks".
C3_Witness ==
    /\ pc = "ssa_done"
    /\ \E n \in Reachable \ {entry} :
          /\ Cardinality(PredSet(n)) >= 2
          /\ n \in ReachFrom(arena, EdgeTargets(arena, {n}))
          /\ dom[n] # BlockIds(arena)

\* C4: CFGAnalysis::new yields successors(u) equal to exactly the sequence of
\* block ids u's terminator names (Br: [target]; BrIf: [then, else], kept twice
\* when then = else; Ret and Unreachable: empty), and predecessors is its exact
\* inverse: v occurs k times in successors(u) iff u occurs k times in
\* predecessors(v).
C4_CfgExactInverse ==
    pc \in {"dom_init", "dom_loop", "ssa_done"} =>
        /\ DOMAIN successors = BlockIds(arena)
        /\ DOMAIN predecessors = BlockIds(arena)
        /\ \A u \in BlockIds(arena) :
              successors[u] = TermTargets(Block(arena, u).terminator)
        /\ \A u \in BlockIds(arena) : \A v \in BlockIds(arena) :
              Count(v, successors[u]) = Count(u, predecessors[v])

\* C4 witness: the analysis has run on a function holding a BrIf whose two
\* targets are the same block, and that edge is recorded twice on both sides.
C4_Witness ==
    /\ pc = "dom_init"
    /\ \E u \in BlockIds(arena) :
          LET t == Block(arena, u).terminator IN
          /\ t.kind = "BrIf"
          /\ t.then_bb = t.else_bb
          /\ successors[u] = <<t.then_bb, t.then_bb>>
          /\ Count(u, predecessors[t.then_bb]) = 2


IsPrefix(s, t) == Len(s) <= Len(t) /\ \A i \in 1 .. Len(s) : s[i] = t[i]

\* Stage number i of the run failed or left an error in its collector.
StageErred(i) == diags[ran[i]].failed \/ diags[ran[i]].errors > 0

\* C5: the stages run in the one fixed order, each after all earlier ones have
\* completed; once the lexer or parser fails or a pass's collector holds an
\* error no later stage runs and the run ends in failure; a run that ends with
\* Err ends so because of such a failure or error (warnings and info alone
\* never stop it), and a run that ends Ok has run all nine stages.
C5_DriverGates ==
    /\ IsPrefix(ran, Stages)
    /\ outcome = "running" => pc = Stages[Len(ran) + 1]
    /\ \A i \in 1 .. Len(ran) :
          StageErred(i) => i = Len(ran) /\ outcome \in {"Err", "Panic"}
    /\ outcome = "Err" => ran # <<>> /\ StageErred(Len(ran))
    /\ outcome = "Ok" => ran = Stages
    /\ outcome # "running" => pc = "exit"

\* C5 witness: the simplification pass reported warnings and info, the run went
\* on to typechecking, typechecking recorded an error, and the run ended in
\* failure without starting the lowering.
C5_Witness ==
    /\ outcome = "Err"
    /\ ran = SubSeq(Stages, 1, 6)
    /\ diags["simplify"].warnings > 0
    /\ diags["simplify"].info > 0
    /\ diags["typecheck"].errors > 0


\* The function in `arena` is the lowering of a program that typechecked without error.
LoweredOk ==
    /\ pc \in {"ssa_cfg", "dom_init", "dom_loop", "ssa_done"}
    /\ tc.done /\ tc.errors = <<>> /\ ~tc.panicked
    /\ low.done /\ low.errors = <<>> /\ ~low.panicked

\* C1: after lowering a function of a program that typechecks without error,
\* every basic block reachable from the entry block through terminator edges
\* has a terminator other than Unreachable.
C1_ReachableBlocksTerminated ==
    LoweredOk => \A b \in Reachable : Block(arena, b).terminator # Unreachable

\* The number of instructions of the function whose destination is register r.
DefCount(r) ==
    Cardinality({<<b, i>> \in BlockIds(arena) \X (1 .. MaxNodes * 2) :
                    /\ i <= Len(Block(arena, b).instructions)
                    /\ Block(arena, b).instructions[i].dest = r})

\* C2: after the SSA pass has run on a lowered function, no register has more
\* than one defining instruction in that function (a register that is written
\* has exactly one definition).
C2_SingleDefinition ==
    (LoweredOk /\ pc = "ssa_done") =>
        \A r \in 0 .. (low.register_cursor - 1) : DefCount(r) <= 1

\* The names declared directly by a statement list: one entry per declaration.
RECURSIVE DeclNames(_, _)
DeclNames(statements, i) ==
    IF i > Len(statements) THEN <<>>
    ELSE (IF statements[i].kind = "Assignment" /\ statements[i].typ # "None"
          THEN <<statements[i].left>> ELSE <<>>) \o DeclNames(statements, i + 1)

VarNames(variables) == [i \in 1 .. Len(variables) |-> variables[i].name]

HasDuplicate(names) ==
    \E i \in 1 .. Len(names) : \E j \in 1 .. Len(names) : i # j /\ names[i] = names[j]

\* Some block nested in the statement list declares a name twice.
RECURSIVE NestedDuplicate(_)
NestedDuplicate(statements) ==
    \E i \in 1 .. Len(statements) :
        LET s == statements[i]
            In(b) == HasDuplicate(DeclNames(b.statements, 1)) \/ NestedDuplicate(b.statements)
        IN CASE s.kind = "While" -> In(s.body)
             [] s.kind = "Block" -> In(s.block)
             [] s.kind = "If" -> In(s.then) \/ (s.els # <<>> /\ In(s.els[1]))
             [] OTHER -> FALSE

\* A name is declared twice in one scope: two globals, two parameters, a
\* parameter and a `var` of the function body, or two `var` in one block.
SameScopeRedeclaration(p) ==
    \/ HasDuplicate(VarNames(p.globals))
    \/ HasDuplicate(VarNames(p.functions[1].args) \o DeclNames(p.functions[1].body.statements, 1))
    \/ NestedDuplicate(p.functions[1].body.statements)

\* C9: typechecking records an error whenever a name is declared twice in the
\* same scope (two globals, two parameters, a parameter and a `var` of the
\* body, two `var` in one block), and records no redeclaration error when no
\* scope declares a name twice (an inner declaration may reuse an outer name).
C9_RedeclarationDiagnosed ==
    tc.done =>
        /\ SameScopeRedeclaration(program) => tc.errors # <<>>
        /\ ~SameScopeRedeclaration(program) =>
               "Redeclaration of variable in same scope" \notin Range(tc.errors)

\* The declared types of the `var` declarations of a statement list, nested ones included.
RECURSIVE DeclTypes(_)
DeclTypes(statements) ==
    UNION {LET s == statements[i]
           IN CASE s.kind = "Assignment" -> IF s.typ # "None" THEN {s.typ} ELSE {}
                [] s.kind = "While" -> DeclTypes(s.body.statements)
                [] s.kind = "Block" -> DeclTypes(s.block.statements)
                [] s.kind = "If" -> DeclTypes(s.then.statements) \cup
                                    (IF s.els = <<>> THEN {} ELSE DeclTypes(s.els[1].statements))
                [] OTHER -> {}
           : i \in 1 .. Len(statements)}

\* C10: after a typechecking pass that records no error, no global variable,
\* parameter or local `var` declaration of the program still has type Auto.
C10_NoAutoSurvives ==
    (tc.done /\ tc.errors = <<>> /\ ~tc.panicked) =>
        /\ \A i \in 1 .. Len(tc.program.globals) : tc.program.globals[i].typ # "Auto"
        /\ \A i \in 1 .. Len(tc.program.functions[1].args) :
               tc.program.functions[1].args[i].typ # "Auto"
        /\ "Auto" \notin DeclTypes(tc.program.functions[1].body.statements)

(***************************************************************************)
(* The simplification pass: a reference interpreter for closed expressions *)
(* and the properties of the pass.                                         *)
(***************************************************************************)
NumValue(v) == [k |-> "num", v |-> v]
BoolValue(b) == [k |-> "bool", v |-> b]
\* the value of an expression that has none: an operator applied to the wrong type
NoValue == [k |-> "none"]

RefBinary(l, op, r) ==
    IF l.k = "num" /\ r.k = "num"
    THEN CASE op = "+" -> NumValue(F64Add(l.v, r.v))
           [] op = "-" -> NumValue(F64Sub(l.v, r.v))
           [] op = "*" -> NumValue(F64Mul(l.v, r.v))
           [] op = "/" -> NumValue(F64Div(l.v, r.v))
           [] op = "%" -> NumValue(F64Rem(l.v, r.v))
           [] op = "<" -> BoolValue(F64Less(l.v, r.v))
           [] op = ">" -> BoolValue(F64Less(r.v, l.v))
           [] op = "<=" -> BoolValue(F64Less(l.v, r.v) \/ F64Eq(l.v, r.v))
           [] op = ">=" -> BoolValue(F64Less(r.v, l.v) \/ F64Eq(l.v, r.v))
           [] op = "==" -> BoolValue(F64Eq(l.v, r.v))
           [] op = "!=" -> BoolValue(~F64Eq(l.v, r.v))
           [] OTHER -> NoValue
    ELSE IF l.k = "bool" /\ r.k = "bool"
    THEN CASE op = "&&" -> BoolValue(l.v /\ r.v)
           [] op = "||" -> BoolValue(l.v \/ r.v)
           [] op = "==" -> BoolValue(l.v = r.v)
           [] op = "!=" -> BoolValue(l.v # r.v)
           [] OTHER -> NoValue
    ELSE NoValue

RefUnary(op, l) ==
    CASE op = "-" /\ l.k = "num" -> NumValue(F64Neg(l.v))
      [] op = "+" /\ l.k = "num" -> l
      [] op = "!" /\ l.k = "bool" -> BoolValue(~l.v)
      [] OTHER -> NoValue

\* The value of a closed expression: every operator applied to the values of
\* its operands, nothing rewritten
RECURSIVE RefEval(_)
RefEval(e) ==
    CASE e.kind = "Number" -> NumValue(e.value)
      [] e.kind = "Boolean" -> BoolValue(e.value)
      [] e.kind = "BinaryOp" ->
            The({The({RefBinary(l, e.op, r) : r \in {RefEval(e.right)}}) :
                 l \in {RefEval(e.left)}})
      [] e.kind = "UnaryOp" -> The({RefUnary(e.op, l) : l \in {RefEval(e.left)}})
      [] OTHER -> NoValue

\* The nodes of an expression, each as the subtree it roots
RECURSIVE Nodes(_)
Nodes(e) ==
    CASE e.kind = "BinaryOp" -> {e} \cup Nodes(e.left) \cup Nodes(e.right)
      [] e.kind = "UnaryOp" -> {e} \cup Nodes(e.left)
      [] OTHER -> {e}

Closed(e) == \A n \in Nodes(e) : n.kind # "Variable"

\* a `/` or `%` node whose operands are number literals, the right one zero
DivisionByZero(n) ==
    /\ n.kind = "BinaryOp"
    /\ n.op \in {"/", "%"}
    /\ n.left.kind = "Number"
    /\ n.right.kind = "Number"
    /\ IsZero(n.right.value)

\* C6: for every closed expression that has a value, the expression the pass
\* leaves in the tree has the same value under the reference interpreter as
\* the expression it was given.
C6_FoldPreservesValue ==
    (once.done /\ Closed(expr) /\ RefEval(expr) # NoValue)
        => RefEval(once.e) = RefEval(expr)

\* C7: the pass is idempotent: a second run over the tree left by the first
\* rewrites no node and leaves the identical tree.
C7_Idempotent ==
    twice.done => (twice.e = once.e /\ twice.st.folded_nodes_count = 0)

\* C7 witness: the first run rewrote a node of a tree that keeps an operator,
\* and the second run over that tree has ended.
C7_Witness ==
    /\ twice.done
    /\ once.st.folded_nodes_count >= 1
    /\ once.e # expr
    /\ once.e.kind = "BinaryOp"
    /\ twice.e = once.e

\* C8: every division or modulo of a number literal by a literal zero that the
\* pass is given gets a warning and no error, and is still in the tree when the
\* pass ends, whatever encloses it.
C8_DivisionByZeroKept ==
    once.done =>
        \A n \in Nodes(expr) :
            DivisionByZero(n) =>
                /\ once.st.warnings >= 1
                /\ once.st.errors = 0
                /\ n \in Nodes(once.e)

(***************************************************************************)
(* Typechecking of calls, operators and Void  (SpecTc).                    *)
(***************************************************************************)
\* The types bound in the scopes attached to a block and to the blocks nested in it
RECURSIVE ScopeTypes(_)
ScopeTypes(b) ==
    (IF b.scope = <<>> THEN {} ELSE {b.scope[1][n] : n \in DOMAIN b.scope[1]})
    \cup UNION {LET s == b.statements[i]
                IN CASE s.kind = "While" -> ScopeTypes(s.body)
                     [] s.kind = "Block" -> ScopeTypes(s.block)
                     [] s.kind = "If" -> ScopeTypes(s.then) \cup
                                         (IF s.els = <<>> THEN {} ELSE ScopeTypes(s.els[1]))
                     [] OTHER -> {}
                : i \in 1 .. Len(b.statements)}

\* C11: after a typechecking pass that records no error, no global, parameter
\* or local variable has type Void.
C11_NoVoidVariable ==
    (tc.done /\ tc.errors = <<>> /\ ~tc.panicked) =>
        /\ \A i \in 1 .. Len(tc.program.globals) : tc.program.globals[i].typ # "Void"
        /\ \A i \in 1 .. Len(tc.program.functions) :
               "Void" \notin ScopeTypes(tc.program.functions[i].body)

\* The expressions that stand directly in a statement list (initializers,
\* assigned values, expression statements, returned values), nested blocks included
RECURSIVE StatementExprs(_)
StatementExprs(statements) ==
    UNION {LET s == statements[i]
           IN CASE s.kind = "Assignment" -> Range(s.right)
                [] s.kind = "Expression" -> {s.expression}
                [] s.kind = "Return" -> Range(s.expression)
                [] s.kind = "Block" -> StatementExprs(s.block.statements)
                [] s.kind = "While" -> {s.condition} \cup StatementExprs(s.body.statements)
                [] s.kind = "If" -> {s.condition} \cup StatementExprs(s.then.statements) \cup
                                    (IF s.els = <<>> THEN {}
                                     ELSE StatementExprs(s.els[1].statements))
                [] OTHER -> {}
           : i \in 1 .. Len(statements)}

\* an operator over number literals that is not applicable to numbers: `!` or
\* `&&` / `||`; its operands typecheck wherever it stands
Inapplicable(e) ==
    \/ e.kind = "UnaryOp" /\ e.op = "!" /\ e.left.kind = "Number"
    \/ e.kind = "BinaryOp" /\ e.op \in LogicalOps
          /\ e.left.kind = "Number" /\ e.right.kind = "Number"

\* C12: when the operands of a unary or binary expression typecheck but the
\* operator is not applicable to them, typechecking records an error: a program
\* with such an expression as an expression statement does not pass without error.
C12_InapplicableOperatorDiagnosed ==
    tc.done =>
        \A i \in 1 .. Len(program.functions) :
            \A j \in 1 .. Len(program.functions[i].body.statements) :
                LET s == program.functions[i].body.statements[j]
                IN (s.kind = "Expression" /\ Inapplicable(s.expression)) => tc.errors # <<>>

\* the functions of program p named by the callee of call e
Callees(p, e) ==
    {p.functions[i] : i \in {k \in 1 .. Len(p.functions) : p.functions[k].name = e.identifier}}

\* call e names a function of p and passes one number for each f64 parameter
GoodCall(p, e) ==
    /\ e.kind = "Call"
    /\ Callees(p, e) # {}
    /\ \A f \in Callees(p, e) :
          /\ Len(f.args) = Len(e.args)
          /\ \A k \in 1 .. Len(e.args) : e.args[k].kind = "Number" /\ f.args[k].typ = "F64"

\* call e names no function of p, or passes the wrong number of arguments
BadCall(p, e) ==
    /\ e.kind = "Call"
    /\ \A f \in Callees(p, e) : Len(f.args) # Len(e.args)

\* every global of p is initialised by a good call of a function that returns
\* f64, and every statement of p is a good call in statement position
OnlyGoodCalls(p) ==
    /\ \A i \in 1 .. Len(p.globals) :
          /\ p.globals[i].initializer # <<>>
          /\ GoodCall(p, p.globals[i].initializer[1])
          /\ \A f \in Callees(p, p.globals[i].initializer[1]) : f.return_type = "F64"
    /\ \A i \in 1 .. Len(p.functions) :
          \A j \in 1 .. Len(p.functions[i].body.statements) :
              LET s == p.functions[i].body.statements[j]
              IN s.kind = "Expression" /\ GoodCall(p, s.expression)

\* C13: a call of a function defined anywhere in the program, with matching
\* arguments, records no error and has the callee's return type wherever it
\* stands, global initializers included; a call in statement position of an
\* undefined name or with the wrong number of arguments records an error.
C13_CallsResolve ==
    tc.done =>
        /\ OnlyGoodCalls(program) =>
              /\ tc.errors = <<>>
              /\ \A i \in 1 .. Len(program.globals) : tc.program.globals[i].typ = "F64"
        /\ \A i \in 1 .. Len(program.functions) :
              \A j \in 1 .. Len(program.functions[i].body.statements) :
                  LET s == program.functions[i].body.statements[j]
                  IN (s.kind = "Expression" /\ BadCall(program, s.expression))
                         => tc.errors # <<>>

\* The statements of a statement list, nested ones included
RECURSIVE CountStatements(_)
CountStatements(statements) ==
    IF statements = <<>> THEN 0
    ELSE LET s == Head(statements)
         IN 1 + CountStatements(Tail(statements))
              + (CASE s.kind = "While" -> CountStatements(s.body.statements)
                   [] s.kind = "Block" -> CountStatements(s.block.statements)
                   [] s.kind = "If" -> CountStatements(s.then.statements) +
                                       (IF s.els = <<>> THEN 0
                                        ELSE CountStatements(s.els[1].statements))
                   [] OTHER -> 0)

\* The globals, parameters and statements of the functions i.. of a program
RECURSIVE CountFunctions(_, _)
CountFunctions(functions, i) ==
    IF i > Len(functions) THEN 0
    ELSE Len(functions[i].args) + CountStatements(functions[i].body.statements)
         + CountFunctions(functions, i + 1)

\* C20: typechecking visits every global, parameter and statement of the
\* program whatever errors were recorded before, keeps the errors recorded for
\* the globals when it goes on to the functions, and the run stops after the
\* pass exactly when an error was recorded.
C20_TypecheckingAccumulates ==
    (tc.done /\ ~tc.panicked) =>
        /\ tc.visits = Len(program.globals) + CountFunctions(program.functions, 1)
        /\ IsPrefix(tc.global_errors, tc.errors)
        /\ (pc = "exit") <=> (tc.errors # <<>>)

\* C20 witness: the first of two statements of f recorded an error, the second
\* one recorded another, and g was visited after that.
C20_Witness ==
    /\ tc.done
    /\ Len(program.functions) = 2
    /\ Len(program.functions[1].body.statements) = 2
    /\ program.functions[1].body.statements[1] = ExpressionStmt(VariableExpr("x"))
    /\ program.functions[1].body.statements[2] = ExpressionStmt(Call("g", <<>>))
    /\ Len(tc.errors) = 2
    /\ tc.visits = 3

(***************************************************************************)
(* Lowering of a while statement  (SpecCompile).                           *)
(***************************************************************************)
\* statements[k] is a while whose body holds assignments and expression
\* statements only, and no other statement of the list is an if, a while or a block
SimpleWhileAt(statements, k) ==
    /\ statements[k].kind = "While"
    /\ \A j \in 1 .. Len(statements[k].body.statements) :
          statements[k].body.statements[j].kind \in {"Assignment", "Expression"}
    /\ \A j \in (1 .. Len(statements)) \ {k} :
          statements[j].kind \in {"Assignment", "Expression", "Return"}

\* C19: lowering a while whose body has no if, while or return allocates three
\* blocks after the block that was current (here the entry block 0): block 0
\* ends in Br cond, cond (1) computes the condition and ends in
\* BrIf(body, merge), body (2) ends in Br cond, and merge (3) is the current
\* block afterwards: it receives the statements that follow and ends in Ret
\* when a return follows.  The function has exactly four blocks.
C19_WhileShape ==
    (low.done /\ ~low.panicked /\ low.errors = <<>>) =>
        LET statements == program.functions[1].body.statements
        IN \A k \in 1 .. Len(statements) :
              SimpleWhileAt(statements, k) =>
                  /\ Len(arena) = 4
                  /\ Block(arena, 0).terminator = Br(1)
                  /\ Block(arena, 1).terminator = BrIf(2, 3)
                  /\ Block(arena, 1).instructions # <<>>
                  /\ Block(arena, 1).instructions[Len(Block(arena, 1).instructions)].op = "Lt"
                  /\ Block(arena, 2).terminator = Br(1)
                  /\ (Block(arena, 2).instructions = <<>>) <=>
                         (statements[k].body.statements = <<>>)
                  /\ (Block(arena, 3).terminator.kind = "Ret") <=>
                         (\E j \in (k + 1) .. Len(statements) : statements[j].kind = "Return")
                  /\ (Block(arena, 3).terminator.kind \in {"Ret", "Unreachable"})
                  /\ (Block(arena, 3).instructions = <<>>) <=>
                         (\A j \in (k + 1) .. Len(statements) :
                              statements[j].kind # "Assignment")

\* C19 witness: `while x < 1 { } return 0` in a function with parameter x has
\* been lowered to four blocks, the merge block ending in Ret.
C19_Witness ==
    /\ low.done /\ ~low.panicked /\ low.errors = <<>>
    /\ Len(program.functions[1].body.statements) = 2
    /\ SimpleWhileAt(program.functions[1].body.statements, 1)
    /\ program.functions[1].body.statements[2].kind = "Return"
    /\ Len(arena) = 4
    /\ Block(arena, 3).terminator.kind = "Ret"

(***************************************************************************)
(* The claim about the lexer.                                              *)
(***************************************************************************)
\* the 0-based row and column of the character at offset i of the input
RECURSIVE RowOf(_)
RowOf(i) == IF i = 0 THEN 0 ELSE RowOf(i - 1) + (IF input[i] = "\n" THEN 1 ELSE 0)

RECURSIVE ColumnOf(_)
ColumnOf(i) == IF i = 0 \/ input[i] = "\n" THEN 0 ELSE ColumnOf(i - 1) + 1

\* token t carries the row and column of offset i, and its lexeme stands there
StartsAt(t, i) ==
    /\ RowOf(i) = t.row
    /\ ColumnOf(i) = t.column
    /\ Slice(i, i + Len(t.lexeme)) = t.lexeme

\* C18: every token the lexer produces (Eof aside) carries the 0-based row and
\* column of the first character of its lexeme.
C18_TokenPositions ==
    pc = "lexer" =>
        \A k \in 1 .. Len(lx.tokens) :
            lx.tokens[k].tag # "Eof" =>
                \E i \in 0 .. Len(input) - 1 : StartsAt(lx.tokens[k], i)

(***************************************************************************)
(* The claims about the parser.                                            *)
(***************************************************************************)
\* the first statement of the token sequence, as parse_statement returns it
FirstStatement == parse_statement(ParserNew)

\* C14: when the first top-level statement is a statement that begins with
\* neither `fn` nor `var`, parse returns a ParseError whose message names a
\* row and column.
C14_TopLevelStatements ==
    (pc = "parse" /\ parsed.done) =>
        ((FirstStatement.ok /\ tokens[1].tag \notin {"Fn", "Var"}) =>
            (~parsed.ok /\ parsed.error[1].at # <<>>))

\* the positions of the semicolons of the token sequence
Semicolons ==
    {<<tokens[k].row, tokens[k].column>> : k \in {i \in 1 .. Len(tokens) : tokens[i].tag = "Semicolon"}}

\* C15: a token sequence with a semicolon is rejected, with a ParseError whose
\* message names the row and column of a semicolon.
C15_SemicolonRejected ==
    (pc = "parse" /\ parsed.done /\ Semicolons # {}) =>
        (~parsed.ok /\ parsed.error[1].at # <<>> /\ parsed.error[1].at \in Semicolons)

\* C16: when a sub-parser fails, parse returns that failure: no failure is
\* dropped and parsing does not go on after it.
C16_NoRecovery ==
    (pc = "parse" /\ parsed.done) => parsed.discarded = <<>>

\* The reference grammar of expressions:
\*     expression := unary (operator unary)*      unary := (+ | - | !) unary | primary
\* with the precedences of the binary operators
RefPrecedence(tag) ==
    CASE tag = "Or" -> 5
      [] tag = "And" -> 6
      [] tag \in {"Equal", "NotEqual", "Less", "Greater", "LessEqual", "GreaterEqual"} -> 10
      [] tag \in {"Plus", "Minus"} -> 20
      [] tag \in {"Star", "Slash", "Percent"} -> 40
      [] OTHER -> 0

\* the unary expression that starts at token k, and the index of the token after it
RECURSIVE RefUnaryAt(_)
RefUnaryAt(k) ==
    IF tokens[k].tag \in {"Plus", "Minus", "Bang"}
    THEN The({[e |-> UnaryOp(tokens[k].lexeme, r.e), next |-> r.next] : r \in {RefUnaryAt(k + 1)}})
    ELSE [e |-> VariableExpr(tokens[k].lexeme), next |-> k + 1]

\* the operands and the binary operators between them, from token k on
RECURSIVE RefFlat(_, _, _)
RefFlat(k, operands, ops) ==
    The({IF RefPrecedence(tokens[u.next].tag) > 0
         THEN RefFlat(u.next + 1, Append(operands, u.e), Append(ops, tokens[u.next]))
         ELSE [operands |-> Append(operands, u.e), ops |-> ops] :
         u \in {RefUnaryAt(k)}})

\* the operator the tree splits at: the last one of the lowest precedence
SplitAt(ops) ==
    CHOOSE k \in 1 .. Len(ops) :
        \A j \in 1 .. Len(ops) :
            /\ RefPrecedence(ops[k].tag) <= RefPrecedence(ops[j].tag)
            /\ j > k => RefPrecedence(ops[k].tag) < RefPrecedence(ops[j].tag)

\* the tree of the reference grammar
RECURSIVE RefTree(_, _)
RefTree(operands, ops) ==
    IF ops = <<>> THEN operands[1]
    ELSE LET k == SplitAt(ops)
         IN BinaryOp(RefTree(SubSeq(operands, 1, k), SubSeq(ops, 1, k - 1)),
                     ops[k].lexeme,
                     RefTree(SubSeq(operands, k + 1, Len(operands)),
                             SubSeq(ops, k + 1, Len(ops))))

\* C17: parse_expression takes the whole sequence of operands and operators and
\* builds the tree of the reference grammar: higher precedence binds tighter,
\* equal precedence groups to the left, a unary operator takes the primary
\* that follows it.
C17_PrecedenceClimbing ==
    (pc = "parse_expression" /\ parsed.done) =>
        /\ parsed.ok
        /\ tokens[parsed.position + 1].tag = "Eof"
        /\ \E flat \in {RefFlat(1, <<>>, <<>>)} :
              parsed.value[1] = RefTree(flat.operands, flat.ops)

\* a - b * -c - d  has been parsed as  (a - (b * (-c))) - d
C17_Witness ==
    /\ pc = "parse_expression"
    /\ parsed.done
    /\ tokens = Positioned(Operands(<<"Minus", "Star", "Minus">>, <<"Minus">>, 3, 1))
    /\ parsed.value = <<BinaryOp(BinaryOp(VariableExpr("a"), "-",
                                          BinaryOp(VariableExpr("b"), "*",
                                                   UnaryOp("-", VariableExpr("c")))),
                                 "-", VariableExpr("d"))>>

(***************************************************************************)
(* Dominators: the claims about what compute_dominators returns and how    *)
(* it gets there.                                                          *)
(***************************************************************************)
\* The blocks a path of terminator edges from entry reaches without passing
\* through block d.
RECURSIVE ReachAvoiding(_, _)
ReachAvoiding(S, d) ==
    LET T == S \cup (EdgeTargets(arena, S) \ {d}) IN
    IF T = S THEN S ELSE ReachAvoiding(T, d)

\* d dominates n: every path from entry to n passes through d
Dominates(d, n) == n \notin ReachAvoiding({entry} \ {d}, d) \/ d = n

\* n is reachable and one of the blocks that branch to it is not
HasUnreachablePred(n) == n \in Reachable /\ PredSet(n) \ Reachable # {}

\* C22: for every block n reachable from entry, dom(n) as compute_dominators
\* returns it is exactly the set of blocks that every path from entry to n
\* passes through, unreachable predecessors of n or not.
C22_DominatorsExact ==
    pc = "ssa_done" =>
        \A n \in Reachable : dom[n] = {d \in BlockIds(arena) : Dominates(d, n)}

\* C22 witness: the pass has returned on a function where a reachable block
\* other than entry has an unreachable predecessor and a dominator set that
\* is not "all blocks".
C22_Witness ==
    /\ pc = "ssa_done"
    /\ \E n \in Reachable \ {entry} :
          /\ HasUnreachablePred(n)
          /\ PredSet(n) \cap Reachable # {}
          /\ dom[n] # BlockIds(arena)

\* C23: every pass of the fixpoint loop leaves each dom(n) as it was or
\* replaces it by a strict subset, and compute_dominators returns.
C23_ShrinksAndTerminates ==
    /\ [][pc = "dom_loop" =>
            \A n \in BlockIds(arena) :
                dom'[n] # dom[n] => (dom'[n] \subseteq dom[n])]_vars
    /\ <>(pc = "ssa_done")

\* C23 witness: a pass has replaced the set of a block that lies on a cycle,
\* in a function that also has an unreachable block.
C23_Witness ==
    /\ pc = "dom_loop"
    /\ changed
    /\ Reachable # BlockIds(arena)
    /\ \E n \in Reachable \ {entry} :
          /\ n \in ReachFrom(arena, EdgeTargets(arena, {n}))
          /\ dom[n] # BlockIds(arena)

\* The iteration that reads only the sets of the previous iteration: every
\* block other than entry that has a predecessor gets the intersection of the
\* previous sets of its predecessors, and itself.
SnapshotStep(d) ==
    [n \in BlockIds(arena) |->
        IF n = entry \/ PredSet(n) = {} THEN d[n]
        ELSE {n} \cup Intersection({d[p] : p \in PredSet(n)})]

RECURSIVE SnapshotFixpoint(_)
SnapshotFixpoint(d) ==
    IF SnapshotStep(d) = d THEN d ELSE SnapshotFixpoint(SnapshotStep(d))

\* C24: the sets compute_dominators returns, writing each set back at once in
\* arena order, are the sets the snapshot iteration ends with, whatever the
\* position of each block in the arena.
C24_OrderIndependent ==
    pc = "ssa_done" =>
        dom = SnapshotFixpoint([b \in BlockIds(arena) |->
                                   IF b = entry THEN {entry} ELSE BlockIds(arena)])

\* C24 witness: the pass has returned on a function where a reachable block is
\* processed before one of its predecessors, whose set has shrunk.
C24_Witness ==
    /\ pc = "ssa_done"
    /\ \E n \in Reachable \ {entry} : \E p \in PredSet(n) \cap Reachable :
          /\ p > n
          /\ dom[p] # BlockIds(arena)
          /\ dom[n] # BlockIds(arena)

\* C21: once a `return` has set the terminator of a block to Ret, no later
\* lowering step replaces it: when lowering has ended, every block in which a
\* `return` was lowered ends in Ret.
C21_ReturnKeepsRet ==
    (low.done /\ ~low.panicked) =>
        \A b \in low.returned : Block(arena, b).terminator = Ret

\* The places <<block, index>> of the instructions of the function in `arena`.
InstructionSites ==
    UNION {{<<b, i>> : i \in 1 .. Len(Block(arena, b).instructions)} : b \in BlockIds(arena)}

InstructionAt(site) == Block(arena, site[1]).instructions[site[2]]

\* C26: the register allocator never returns the same register twice; the
\* destination of each non-Copy instruction is the destination of no other
\* instruction and is bound to no variable or parameter, so that only a Copy
\* may write a register more than once.
C26_FreshRegisters ==
    (low.done /\ ~low.panicked) =>
        /\ \A i, j \in 1 .. Len(low.handed) : i # j => low.handed[i] # low.handed[j]
        /\ \A s \in InstructionSites :
              InstructionAt(s).op # "Copy" =>
                  /\ InstructionAt(s).dest \notin low.bound
                  /\ \A t \in InstructionSites \ {s} :
                        InstructionAt(t).dest # InstructionAt(s).dest

\* A lowered function in which a variable's register is written by two Copy
\* instructions and read by an instruction with a register of its own.
C26_Witness ==
    /\ low.done /\ ~low.panicked /\ low.errors = <<>>
    /\ \E s, t \in InstructionSites :
          /\ s # t
          /\ InstructionAt(s).op = "Copy" /\ InstructionAt(t).op = "Copy"
          /\ InstructionAt(s).dest = InstructionAt(t).dest
          /\ InstructionAt(s).dest \in low.bound
          /\ \E u \in InstructionSites :
                /\ InstructionAt(u).op \notin {"Copy"}
                /\ RegOperand(InstructionAt(s).dest) \in Range(InstructionAt(u).args)

\* The number of if and while statements of a statement list, nested ones included.
RECURSIVE ControlCount(_, _)
ControlCount(statements, i) ==
    IF i > Len(statements) THEN 0
    ELSE LET s == statements[i]
         IN (CASE s.kind = "While" -> 1 + ControlCount(s.body.statements, 1)
               [] s.kind = "If" ->
                     1 + ControlCount(s.then.statements, 1)
                       + (IF s.els = <<>> THEN 0 ELSE ControlCount(s.els[1].statements, 1))
               [] s.kind = "Block" -> ControlCount(s.block.statements, 1)
               [] OTHER -> 0)
            + ControlCount(statements, i + 1)

\* C27: the block arena only grows: each allocation returns the number of blocks
\* allocated before it, the entry block is id 0, every BlockId in a terminator
\* is smaller than the arena's length, and no block is removed or moved, by
\* lowering or by the SSA pass that follows it.
C27_ArenaOnlyGrows ==
    /\ []((low.done /\ ~low.panicked) =>
            /\ entry = 0
            /\ Len(arena) = 1 + 3 * ControlCount(tc.program.functions[1].body.statements, 1)
            /\ \A b \in BlockIds(arena) :
                  Range(TermTargets(Block(arena, b).terminator)) \subseteq BlockIds(arena))
    /\ [][(pc \in {"ssa_cfg", "dom_init", "dom_loop"}) => (arena' = arena /\ entry' = entry)]_vars

\* The SSA pass has ended on a function with two control statements (7 blocks).
C27_Witness ==
    /\ pc = "ssa_done" /\ low.done /\ ~low.panicked
    /\ Len(arena) = 7
    /\ \E b \in BlockIds(arena) : Block(arena, b).terminator.kind = "BrIf"

\* C28: every program that typechecking accepts without error lowers without
\* panic and without error: every operator, unary form and type that
\* typechecking accepts has a lowering.
C28_AcceptedProgramsLower ==
    (tc.done /\ tc.errors = <<>> /\ ~tc.panicked /\ low.done) =>
        (~low.panicked /\ low.errors = <<>>)

\* C29: lowering and typechecking agree on name resolution.  Typechecking makes
\* every `var` statement of an error-free program a declaration of its own (the
\* name is new in the current scope), different from every global, parameter
\* and other `var` statement; so the register lowering writes for a `var`
\* statement is the register of no global or parameter and of no other `var`
\* statement.
C29_ResolutionAgrees ==
    (tc.done /\ tc.errors = <<>> /\ ~tc.panicked /\ low.done /\ ~low.panicked) =>
        LET outer == Len(tc.program.globals) + Len(tc.program.functions[1].args)
        IN /\ \A i \in 1 .. Len(low.declared) : low.declared[i] \notin 0 .. (outer - 1)
           /\ \A i, j \in 1 .. Len(low.declared) :
                 i # j => low.declared[i] # low.declared[j]

\* The registers of the function's parameters: they follow the globals' registers.
ParamRegs ==
    Len(tc.program.globals) ..
        (Len(tc.program.globals) + Len(tc.program.functions[1].args) - 1)

\* C30: in the MIR of every function lowered from an error-free program, every
\* register used as an operand of an instruction is a parameter of the function
\* or the destination of some instruction of the function; in particular a
\* global that is read has a defining instruction.
C30_OperandsDefined ==
    LoweredOk =>
        \A s \in InstructionSites : \A a \in Range(InstructionAt(s).args) :
            a.kind = "Reg" =>
                \/ a.reg \in ParamRegs
                \/ \E t \in InstructionSites : InstructionAt(t).dest = a.reg

\* C25: when simplification replaces a node, by a constant fold or by an
\* algebraic identity (e + 0 -> e, e * 1 -> e, e && true -> e, !!e -> e
\* included), the node left in the tree carries the Span of the node it
\* replaced: the root of the simplified tree has the span of the root of the
\* original tree.
C25_SpanPreserved ==
    ("span" \in DOMAIN expr /\ once.done) => once.e.span = expr.span

=============================================================================
